---- MODULE Spec2Model ----
(***************************************************************************)
(* Model of the carol file cache.                                          *)
(*                                                                         *)
(*  - the metadata table and its transactions (carol/src/sqlite/api.rs,    *)
(*    src/database/api.rs);                                                *)
(*  - StorageManager::add_file_from_stream (carol/src/storage_manager.rs), *)
(*    one process per concurrent caller, one action per await point;       *)
(*  - Client::get / remove / schedule_for_removal and File::release        *)
(*    (src/client.rs, src/file.rs), one process per client;                *)
(*  - the maintenance stages (src/maintenance/mod.rs, cleaner.rs) and the  *)
(*    release tasks spawned by dropped File handles;                       *)
(*  - FileMetadata::is_expired and the SQL form of StorePolicy             *)
(*    (carol/src/file.rs, carol/src/sqlite/models.rs).                     *)
(*                                                                         *)
(* Spec       the storage manager with NumProcs concurrent callers         *)
(* SpecFair   Spec with every started call scheduled until it returns      *)
(* SpecDb     the bare table under arbitrary insert / delete / update      *)
(* SpecClient the reference counting client                                *)
(* SpecMaint  the maintenance runner on a cache left by earlier runs       *)
(* SpecPolicy expiry and the store policy conversion on bounded inputs     *)
(***************************************************************************)
EXTENDS Integers, Sequences, FiniteSets, TLC

\* ------------------------------------------------------------------ bounds
NumProcs == 2        \* concurrent callers of add_file_from_stream
MaxStreamLen == 2    \* items a byte stream yields before it ends
MaxRowId == 3        \* ids the bare table hands out
NumClients == 2      \* clients sharing one cache directory and database
MaxEntries == 2      \* cache entries ever created by the clients
BodyLen == 2         \* chunks in the body of a response
TicksPerSecond == 2  \* instants that fit into one second
MaxTick == 6         \* the latest instant looked at, in ticks
MaxSecs == 1         \* the longest duration of a policy that is evaluated, in seconds
MaxRuns == 2         \* maintenance stages run one after the other
PoolSize == 2        \* connections a pool establishes
MaxTasks == 1        \* release tasks of an entry waiting when a stage of endless runs begins
MaxClones == 1       \* clones a client makes of the File it holds

Procs == 1..NumProcs
Sources == {"s1", "s2"}
\* The k-th chunk of the stream handed in by caller p.  The code never looks
\* into a chunk, so naming a chunk by its stream and position loses nothing.
Chunk(p, k) == <<p, k>>
\* concat(chunks(stream)) for the first n chunks of caller p's stream
Chunks(p, n) == [k \in 1..n |-> Chunk(p, k)]

\* ------------------------------------------------------------ file status
Pending == "Pending"
Ready == "Ready"
ToRemove == "ToRemove"
Corrupted == "Corrupted"
FileStatus == {Pending, Ready, ToRemove, Corrupted}

\* ------------------------------------------------------------------ errors
\* An error value: the enum variant and the operation that raised it.
NoError == [variant |-> "None", kind |-> "None", at |-> "None"]

\* diesel::result::Error as wrapped by DatabaseError::DieselError
DieselUniqueViolation(at) ==
    [variant |-> "DieselError", kind |-> "UniqueViolation", at |-> at]
DieselNotFound(at) == [variant |-> "DieselError", kind |-> "NotFound", at |-> at]
\* DatabaseError::PoolError / ConnectionError: the backend could not be reached
PoolError(at) == [variant |-> "PoolError", kind |-> "Other", at |-> at]

\* a classifier that matches the wrong diesel error kind
is_unique_violation_wrong(err) ==
    err.variant = "DieselError" /\ err.kind = "NotFound"
is_unique_violation(err) ==
    err.variant = "DieselError" /\ err.kind = "UniqueViolation"
is_not_found(err) == err.variant = "DieselError" /\ err.kind = "NotFound"

\* StorageError<E>: From<E> wraps a database error, From<IoError> an I/O error
StorageDatabaseError(e) == [variant |-> "DatabaseError", kind |-> e.kind, at |-> e.at]
IoError(at) == [variant |-> "IoError", kind |-> "Io", at |-> at]
CustomError(at) == [variant |-> "CustomError", kind |-> "Custom", at |-> at]
AwaitingError == [variant |-> "AwaitingError", kind |-> "Awaiting", at |-> "wait"]

\* Option<T>: None and Some(v)
None == [some |-> FALSE, val |-> 0]
Some(v) == [some |-> TRUE, val |-> v]

\* ------------------------------------------------------- path derivation
dir == "/storage"
sha256_digest(source) ==
    CASE source = "s1" -> "6f87"
      [] source = "s2" -> "1f8b"
      [] source = "https://example.com/" -> "0f11"
      [] source = "https://example.com/file" -> "b5bb"
      [] source = "" -> "e3b0"
      [] OTHER -> "ffff"
path_from_source(source) == <<dir, sha256_digest(source)>>
Paths == {path_from_source(s) : s \in Sources}

\* ------------------------------------------------------------- the table
\* A row of table `files`: id, source, cache_path, status, last_used.
\* UNIQUE(source), UNIQUE(cache_path) are part of the migration (up.sql).
UniqueViolated(table, new) ==
    \E r \in table : r.source = new.source \/ r.cache_path = new.cache_path

\* AUTOINCREMENT primary key: one more than the largest id ever handed out.
NextId(seq) == seq + 1

\* an insert into a table without the constraints
insert_unchecked(table, seq, new) ==
    [err |-> NoError,
     table |-> table \cup {[id |-> NextId(seq), source |-> new.source,
                            cache_path |-> new.cache_path, status |-> new.status,
                            last_used |-> new.last_used]},
     seq |-> NextId(seq), id |-> NextId(seq)]
insert(table, seq, new) ==
    IF UniqueViolated(table, new)
    THEN [err |-> DieselUniqueViolation("insert"), table |-> table, seq |-> seq, id |-> 0]
    ELSE [err |-> NoError,
          table |-> table \cup {[id |-> NextId(seq), source |-> new.source,
                                 cache_path |-> new.cache_path, status |-> new.status,
                                 last_used |-> new.last_used]},
          seq |-> NextId(seq), id |-> NextId(seq)]

delete(table, pk) == {r \in table : r.id # pk}

get_by_source(table, source) == {r \in table : r.source = source}

HasRow(table, pk) == \E r \in table : r.id = pk
Row(table, pk) == CHOOSE r \in table : r.id = pk

\* UPDATE ... SET status WHERE id = pk RETURNING *: NotFound when no row matches
update_status(table, pk, status) ==
    IF HasRow(table, pk)
    THEN [err |-> NoError,
          table |-> {IF r.id = pk THEN [r EXCEPT !.status = status] ELSE r : r \in table},
          row |-> [Row(table, pk) EXCEPT !.status = status]]
    ELSE [err |-> DieselNotFound("update_status"), table |-> table,
          row |-> [id |-> 0, source |-> "", cache_path |-> <<>>, status |-> Pending,
                   last_used |-> 0]]

\* -------------------------------------------------------------- the disk
NoFile == [exists |-> FALSE, data |-> <<>>]
EmptyFile == [exists |-> TRUE, data |-> <<>>]
\* a write that lands in front of what the file holds
write_all_prepend(file, chunk) == [file EXCEPT !.data = <<chunk>> \o @]
write_all(file, chunk) == [file EXCEPT !.data = Append(@, chunk)]

\* ------------------------------------------------ the client's table
\* A row of the client's table `files`: id, url, cache_path, status, ref_count,
\* expires (None under the client's default, default_duration: None).
Clients == 1..NumClients
Urls == {"u1", "u2"}
cache_dir == "/cache"
url_hash(url) ==
    CASE url = "u1" -> "a3c1"
      [] url = "u2" -> "07de"
      [] OTHER -> "ffff"
\* Client::get: self.cache_dir.join(&url_hash)
cache_path_of(url) == <<cache_dir, url_hash(url)>>
CachePaths == {cache_path_of(u) : u \in Urls}

RemoveError(reason) == [variant |-> "RemoveError", kind |-> reason, at |-> "remove_entry"]
UrlNotCached == [variant |-> "UrlNotCached", kind |-> "UrlNotCached", at |-> "get_by_url"]

\* UNIQUE(url), UNIQUE(cache_path) are part of the migration (up.sql).
EntryUniqueViolated(table, url, cache_path) ==
    \E e \in table : e.url = url \/ e.cache_path = cache_path

HasEntry(table, pk) == \E e \in table : e.id = pk
Entry(table, pk) == CHOOSE e \in table : e.id = pk
NoEntry == [id |-> 0, url |-> "", cache_path |-> <<>>, status |-> Pending, ref_count |-> 0,
            expires |-> None]

\* The id the entries table gives a new row.  Client::update removes the
\* entry of a URL and gets the URL again, and test_update then finds the new
\* entry (created later) under the id of the removed one: the key is one
\* more than the largest key in the table, not a counter that only grows.
next_rowid(table) ==
    IF table = {} THEN 1
    ELSE 1 + (CHOOSE m \in {e.id : e \in table} : \A e \in table : e.id <= m)

\* api::new_entry: status is the default (Pending), ref_count is 0; seq
\* counts the rows inserted so far
new_entry(table, eseq, url, cache_path) ==
    IF EntryUniqueViolated(table, url, cache_path)
    THEN [err |-> DieselUniqueViolation("new_entry"), table |-> table,
          seq |-> eseq, entry |-> NoEntry]
    ELSE LET e == [id |-> next_rowid(table), url |-> url, cache_path |-> cache_path,
                   status |-> Pending, ref_count |-> 0, expires |-> None]
         IN [err |-> NoError, table |-> table \cup {e}, seq |-> eseq + 1, entry |-> e]

\* api::get_entry
get_entry(table, pk) ==
    IF HasEntry(table, pk)
    THEN [err |-> NoError, entry |-> Entry(table, pk)]
    ELSE [err |-> DieselNotFound("get_entry"), entry |-> NoEntry]

\* api::get_by_url: the rows of the URL (first().optional())
get_by_url(table, url) == {e \in table : e.url = url}

\* an update of one row, NotFound when there is none
UpdateEntry(table, pk, new, at) ==
    IF HasEntry(table, pk)
    THEN [err |-> NoError, table |-> (table \ {Entry(table, pk)}) \cup {new}, entry |-> new]
    ELSE [err |-> DieselNotFound(at), table |-> table, entry |-> NoEntry]

\* api::update_status of the client's table
entry_update_status(table, pk, status) ==
    UpdateEntry(table, pk,
                IF HasEntry(table, pk) THEN [Entry(table, pk) EXCEPT !.status = status]
                ELSE NoEntry, "update_status")

\* api::increment_ref
increment_ref(table, pk) ==
    UpdateEntry(table, pk,
                IF HasEntry(table, pk) THEN [Entry(table, pk) EXCEPT !.ref_count = @ + 1]
                ELSE NoEntry, "increment_ref")

\* api::decrement_ref
decrement_ref(table, pk) ==
    UpdateEntry(table, pk,
                IF HasEntry(table, pk) THEN [Entry(table, pk) EXCEPT !.ref_count = @ - 1]
                ELSE NoEntry, "decrement_ref")

\* a removal that looks at the status before it looks at the counter
remove_entry_status_first(table, pk) ==
    IF ~HasEntry(table, pk)
    THEN [err |-> DieselNotFound("remove_entry"), table |-> table]
    ELSE IF Entry(table, pk).status # ToRemove
    THEN [err |-> RemoveError("WrongStatus"), table |-> table]
    ELSE IF Entry(table, pk).ref_count # 0
    THEN [err |-> RemoveError("UsedFile"), table |-> table]
    ELSE [err |-> NoError, table |-> {e \in table : e.id # pk}]
\* api::remove_entry: refuses a referenced entry and one not marked ToRemove
remove_entry(table, pk) ==
    IF ~HasEntry(table, pk)
    THEN [err |-> DieselNotFound("remove_entry"), table |-> table]
    ELSE IF Entry(table, pk).ref_count # 0
    THEN [err |-> RemoveError("UsedFile"), table |-> table]
    ELSE IF Entry(table, pk).status # ToRemove
    THEN [err |-> RemoveError("WrongStatus"), table |-> table]
    ELSE [err |-> NoError, table |-> {e \in table : e.id # pk}]

\* api::delete_unsafe: deletes whatever row has the key
delete_unsafe(table, pk) == {e \in table : e.id # pk}

\* ------------------------------------------------- the cache directory
\* A file of the cache directory: ino tells the file created by one
\* fs::File::create from the file a later one creates at the same path.
NoCacheFile == [exists |-> FALSE, ino |-> 0, data |-> <<>>]
Hole == <<0, 0>>
\* a write of one chunk at chunk offset off of a file
WriteAt(data, off, chunk) ==
    IF off < Len(data)
    THEN [data EXCEPT ![off + 1] = chunk]
    ELSE data \o [k \in 1..(off - Len(data)) |-> Hole] \o <<chunk>>
\* fs::File::create: truncates the file that exists, creates it otherwise
file_create(file, ino) ==
    IF file.exists THEN [file EXCEPT !.data = <<>>]
    ELSE [exists |-> TRUE, ino |-> ino, data |-> <<>>]

\* pc: where the client is;  url, id, path: the entry it works on;  ino: the
\* number of the insert that made its entry, and of the file its handle is
\* open on once it created one;  off: the handle's offset;  status: the
\* status of the entry as last read;  err: the download error;  held: the id
\* of the File it holds (0: none) and held_url: its URL;  res: what its last
\* call returned.
NoRes == [kind |-> "None", id |-> 0, status |-> "None", err |-> NoError]
ResFile(id, status) == [kind |-> "File", id |-> id, status |-> status, err |-> NoError]
ResUnit == [kind |-> "Unit", id |-> 0, status |-> "None", err |-> NoError]
ResErr(e) == [kind |-> "Err", id |-> 0, status |-> "None", err |-> e]
NoClient == [pc |-> "idle", op |-> "none", url |-> "", id |-> 0, path |-> <<>>,
             ino |-> 0, off |-> 0, status |-> "None", err |-> NoError,
             held |-> 0, held_url |-> "", clones |-> 0, res |-> NoRes]

\* ------------------------------------------------------- store policies
\* std::time::Duration: whole seconds (u64) and the part below a second.
\* A u64 of seconds is kept as its low 31 bits and the flag `wide` for 2^31.
I32Max == 2147483647
Duration(wide, secs, sub) == [wide |-> wide, secs |-> secs, sub |-> sub]
\* Duration::as_secs: the whole seconds, the rest is dropped
as_secs(d) == [wide |-> d.wide, secs |-> d.secs]
\* Duration::from_secs
from_secs(n) == Duration(FALSE, n, 0)
\* the length of a duration in ticks
Ticks(d) == d.secs * TicksPerSecond + d.sub

\* file::StorePolicy
StoreForever == [kind |-> "StoreForever", duration |-> Duration(FALSE, 0, 0)]
ExpiresAfter(d) == [kind |-> "ExpiresAfter", duration |-> d]
ExpiresAfterNotUsedFor(d) == [kind |-> "ExpiresAfterNotUsedFor", duration |-> d]

\* a time to live counted from now to the deadline's past
time_to_live_reversed(m, now) ==
    CASE m.store_policy.kind = "StoreForever" -> None
      [] m.store_policy.kind = "ExpiresAfter" ->
            Some(now - (m.created + Ticks(m.store_policy.duration)))
      [] OTHER -> Some(now - (m.last_used + Ticks(m.store_policy.duration)))
\* FileMetadata::time_to_live
time_to_live(m, now) ==
    CASE m.store_policy.kind = "StoreForever" -> None
      [] m.store_policy.kind = "ExpiresAfter" ->
            Some(m.created + Ticks(m.store_policy.duration) - now)
      [] OTHER -> Some(m.last_used + Ticks(m.store_policy.duration) - now)

\* TimeDelta::num_seconds: the whole seconds of a delta, rounded towards zero
num_seconds(delta) ==
    IF delta >= 0 THEN delta \div TicksPerSecond
    ELSE -((-delta) \div TicksPerSecond)

\* FileMetadata::is_expired
is_expired(m, now) ==
    LET ttl == time_to_live(m, now)
    IN ttl.some /\ num_seconds(ttl.val) <= 0

\* ConvertStorePolicyError
TryFromIntError == [variant |-> "ConvertStorePolicyError", kind |-> "TryFromIntError",
                    at |-> "try_into"]
MissingPolicyData == [variant |-> "ConvertStorePolicyError", kind |-> "MissingPolicyData",
                      at |-> "try_from"]

\* sqlite::models::StorePolicy, #[repr(i32)]
PolicyTag(kind) ==
    CASE kind = "StoreForever" -> 0
      [] kind = "ExpiresAfter" -> 1
      [] kind = "ExpiresAfterNotUsedFor" -> 2
\* a reading of the tag that takes one expiring policy for the other
PolicyKindSwapped(tag) ==
    CASE tag = 0 -> "StoreForever"
      [] tag = 1 -> "ExpiresAfterNotUsedFor"
      [] tag = 2 -> "ExpiresAfter"
PolicyKind(tag) ==
    CASE tag = 0 -> "StoreForever"
      [] tag = 1 -> "ExpiresAfter"
      [] tag = 2 -> "ExpiresAfterNotUsedFor"

\* TryFrom<file::StorePolicy> for (StorePolicy, Option<i32>):
\* duration.as_secs().try_into()? fails when the seconds exceed i32::MAX
NotStored == [err |-> NoError, tag |-> -1, data |-> None]
\* a conversion that keeps the low 31 bits of the seconds (`as i32`)
store_policy_to_sql_truncating(p) ==
    IF p.kind = "StoreForever"
    THEN [err |-> NoError, tag |-> PolicyTag(p.kind), data |-> None]
    ELSE [err |-> NoError, tag |-> PolicyTag(p.kind),
          data |-> Some(as_secs(p.duration).secs)]
store_policy_to_sql(p) ==
    IF p.kind = "StoreForever"
    THEN [err |-> NoError, tag |-> PolicyTag(p.kind), data |-> None]
    ELSE IF as_secs(p.duration).wide
         THEN [err |-> TryFromIntError, tag |-> -1, data |-> None]
         ELSE [err |-> NoError, tag |-> PolicyTag(p.kind),
               data |-> Some(as_secs(p.duration).secs)]

\* TryFrom<(StorePolicy, Option<i32>)> for file::StorePolicy:
\* data.ok_or(MissingPolicyData)?.try_into()? fails on a negative number
NotLoaded == [err |-> NoError, policy |-> [kind |-> "None", duration |-> Duration(FALSE, 0, 0)]]
store_policy_from_sql(tag, data) ==
    IF PolicyKind(tag) = "StoreForever"
    THEN [err |-> NoError, policy |-> StoreForever]
    ELSE IF ~data.some THEN [NotLoaded EXCEPT !.err = MissingPolicyData]
         ELSE IF data.val < 0 THEN [NotLoaded EXCEPT !.err = TryFromIntError]
         ELSE [err |-> NoError,
               policy |-> [kind |-> PolicyKind(tag), duration |-> from_secs(data.val)]]

\* the instants, the metadata values and the policies the functions are tried on
Instants == 0..MaxTick
EvalDurations == {Duration(FALSE, n, k) : n \in 0..MaxSecs, k \in 0..(TicksPerSecond - 1)}
Metas ==
    [store_policy : {StoreForever} \cup {ExpiresAfter(d) : d \in EvalDurations}
                        \cup {ExpiresAfterNotUsedFor(d) : d \in EvalDurations},
     created : 0..TicksPerSecond, last_used : 0..TicksPerSecond]
SqlDurations ==
    {Duration(w, n, k) : w \in BOOLEAN, n \in {0, 42, I32Max}, k \in 0..1}
Policies ==
    {StoreForever} \cup {ExpiresAfter(d) : d \in SqlDurations}
        \cup {ExpiresAfterNotUsedFor(d) : d \in SqlDurations}

\* ------------------------------------------------------------ maintenance
EntryIds == 1..Cardinality(Urls)
\* the rows of a SELECT without ORDER BY: in the order of their ids
InIdOrder(S) ==
    CHOOSE q \in [1..Cardinality(S) -> S] :
        \A i, j \in 1..Cardinality(S) : i < j => q[i].id < q[j].id
\* api::get_all
get_all(table) == InIdOrder(table)
\* a filter that yields the first matching row only
filter_by_status_first(table, status) ==
    LET all == InIdOrder({e \in table : e.status = status})
    IN IF all = <<>> THEN all ELSE <<all[1]>>
\* api::filter_by_status
filter_by_status(table, status) == InIdOrder({e \in table : e.status = status})
\* File::from_entry: the handle keeps id, url and cache_path of the entry
from_entry(e) == [id |-> e.id, url |-> e.url, cache_path |-> e.cache_path]
\* Client::list: create_locked_file (increment_ref) for every entry of get_all
list(table) ==
    [files |-> [i \in 1..Cardinality(table) |-> from_entry(get_all(table)[i])],
     table |-> {[e EXCEPT !.ref_count = @ + 1] : e \in table}]
\* Drop for File: tokio::spawn(release(database_url, id))
drop(t, id) == [t EXCEPT ![id] = @ + 1]
\* Client::schedule_for_removal: update_status(entry.id, ToRemove) if the URL is cached
schedule_for_removal(table, url) ==
    IF get_by_url(table, url) = {} THEN table
    ELSE entry_update_status(table, (CHOOSE e \in get_by_url(table, url) : TRUE).id,
                             ToRemove).table
\* Client::remove: schedule_for_removal(url)?, remove_entry(entry.id)?,
\* fs::remove_file(entry.cache_path)?
client_remove(table, directory, url) ==
    LET marked == schedule_for_removal(table, url)
        found == get_by_url(marked, url)
    IN IF found = {} THEN [table |-> marked, cache |-> directory]
       ELSE LET e == CHOOSE x \in found : TRUE
                r == remove_entry(marked, e.id)
            IN IF r.err # NoError THEN [table |-> marked, cache |-> directory]
               ELSE [table |-> r.table,
                     cache |-> [directory EXCEPT ![e.cache_path] = NoCacheFile]]
\* the cleaner's test on file.expires(): Some(ts) with ts < now
Expired(e, now) == e.expires.some /\ e.expires.val < now

\* The runner.  stage: the stage running or run last;  files: the handles of
\* list() not yet looked at;  to_remove: the handles of expired files;
\* listed: the rows of filter_by_status not yet handled;  before, cache_before:
\* table and directory when the stage began;  runs: stages begun;  dir: the
\* directory entries read_dir has not yielded yet;  strays_before: the other
\* entries of the directory when the stage began;  err: the error the stage
\* returned;  left: the handles of list() the stage returned without looking
\* at;  victim: the directory entry check_dir_entry is about to remove.
NoMaint == [pc |-> "idle", stage |-> "none", now |-> 0, files |-> <<>>,
            to_remove |-> <<>>, listed |-> <<>>, before |-> {},
            cache_before |-> [p \in CachePaths |-> NoCacheFile], runs |-> 0,
            dir |-> {}, strays_before |-> {}, err |-> NoError, left |-> 0,
            victim |-> [path |-> <<>>, kind |-> "none", utf8 |-> TRUE]]

\* An entry of the cache directory: its path, what it is (a regular file or
\* not) and whether its path is valid UTF-8.
DirEntry(path, kind, utf8) == [path |-> path, kind |-> kind, utf8 |-> utf8]
\* entries of the cache directory that are not the file of a URL: a
\* directory, a regular file nobody recorded, a regular file whose name is
\* not UTF-8
StrayEntries == {DirEntry(<<cache_dir, "subdir">>, "dir", TRUE),
                 DirEntry(<<cache_dir, "tmp">>, "file", TRUE),
                 DirEntry(<<cache_dir, "0xFF">>, "file", FALSE)}
\* fs::read_dir(&self.client.cache_dir): every entry of the directory
read_dir(directory, others) ==
    {DirEntry(p, "file", TRUE) : p \in {q \in CachePaths : directory[q].exists}} \cup others
\* api::get_by_cache_path
get_by_cache_path(table, cache_path) == {e \in table : e.cache_path = cache_path}
NonUtf8PathError == [variant |-> "NonUtf8PathError", kind |-> "Maintenance",
                     at |-> "check_dir_entry"]
\* a check that removes whatever regular file has no row
check_dir_entry_lossy(table, entry) ==
    IF entry.kind # "file" THEN [err |-> NoError, remove |-> FALSE]
    ELSE [err |-> NoError, remove |-> TRUE]
\* MaintenanceRunner::check_dir_entry: whether the entry is to be removed
check_dir_entry(table, entry) ==
    IF entry.kind # "file" THEN [err |-> NoError, remove |-> FALSE]
    ELSE IF ~entry.utf8 THEN [err |-> NonUtf8PathError, remove |-> FALSE]
    ELSE [err |-> NoError, remove |-> get_by_cache_path(table, entry.path) = {}]

\* MaintenanceRunner::run_once with every option set: the stages in order
StageOrder == <<"find_corrupted", "remove_corrupted", "clean", "prune">>
\* cycle: run_once is called twice in a row (otherwise stages are run one by
\* one, in any order);  step: stages begun;  once: table and directory as
\* the first run_once left them;  now: the instants of the cleanings;
\* forever: run_once is called again and again (step is then the stage of
\* the current run and nothing is recorded).
NoRun == [cycle |-> FALSE, step |-> 0,
          once |-> [entries |-> {}, cache |-> [p \in CachePaths |-> NoCacheFile],
                    strays |-> {}],
          now |-> <<>>, forever |-> FALSE]

\* ------------------------------------------------- storage manager setup
\* A path is the sequence of its components; the first component of an
\* absolute path is the root directory.
RootDir == "/"
\* Path::is_absolute
is_absolute(path) == path # <<>> /\ path[1] = RootDir
\* Path::join: an absolute path replaces the base
join(base, path) == IF is_absolute(path) THEN path ELSE base \o path

\* the file system: its directories and regular files; a relative path is
\* resolved against the working directory
cwd == <<RootDir>>
Directories == {<<RootDir>>, <<RootDir, "storage">>, <<RootDir, "data">>}
RegularFiles == {<<RootDir, "file">>}
\* Path::is_dir: the path exists and is a directory
is_dir(fs, path) == join(cwd, path) \in fs.dirs

\* the directory arguments of init
DirArgs == {<<>>, <<"storage">>, <<"missing">>, <<RootDir, "storage">>, <<RootDir, "data">>,
            <<RootDir, "missing">>, <<RootDir, "file">>}
\* the database URLs of init: a path that can be opened and one that cannot
DatabaseUrls == {"db.sqlite", "/missing/db.sqlite"}

StorageDirectoryPathIsNotAbsolute ==
    [variant |-> "StorageDirectoryPathIsNotAbsolute", kind |-> "Setup", at |-> "init"]
StorageDirectoryDoesNotExist ==
    [variant |-> "StorageDirectoryDoesNotExist", kind |-> "Setup", at |-> "init"]
ConnectionError(at) == [variant |-> "ConnectionError", kind |-> "Other", at |-> at]

\* the database file: whether it exists, whether the migrations were
\* applied, how many pools were built on it
NoDatabase == [exists |-> FALSE, migrated |-> FALSE, pools |-> 0]
\* establish_connection: opens the database file, creating it when missing
establish_connection(db, database_url) ==
    IF database_url = "db.sqlite"
    THEN [err |-> NoError, db |-> [db EXCEPT !.exists = TRUE]]
    ELSE [err |-> ConnectionError("establish_connection"), db |-> db]
\* RETRY_TIMES, and RETRY_PERIOD in milliseconds
RETRY_TIMES == 3
RETRY_PERIOD == 100
\* what connection.batch_execute(&query) may return: Ok or an error
BatchResults == {"Ok", "DatabaseLocked", "DatabaseBusy"}
CouldntSetupConfiguration(err) ==
    [variant |-> "ConnectionError", kind |-> "CouldntSetupConfiguration", at |-> err]
\* establish_connection, where it is and what it did: i is the loop variable,
\* log the results of batch_execute so far, slept the milliseconds slept
NoConn == [pc |-> "idle", database_url |-> "", i |-> 0, log |-> <<>>, slept |-> 0,
           result |-> [err |-> NoError, connection |-> FALSE]]
\* the connections of the pool
Conns == 1..PoolSize
\* a loop that runs once more: for i in 0..=RETRY_TIMES
after_failed_retry_inclusive(i) == IF i + 1 <= RETRY_TIMES THEN "sleep" ELSE "done"
\* for i in 0..RETRY_TIMES: where the loop goes after the attempt of turn i failed
after_failed_retry(i) == IF i + 1 < RETRY_TIMES THEN "sleep" ELSE "done"
\* sqlite::run_migrations
run_migrations(db, database_url) ==
    LET c == establish_connection(db, database_url)
    IN IF c.err # NoError THEN c
       ELSE [err |-> NoError, db |-> [c.db EXCEPT !.migrated = TRUE]]
\* SqliteStorageDatabase::connect_pool: builds the pool; connections are
\* opened when first asked for
connect_pool(db, database_url) == [err |-> NoError, db |-> [db EXCEPT !.pools = @ + 1]]

\* init that touches the database before it looks at the directory
init_migrates_first(fs, db, database_url, path) ==
    LET m == run_migrations(db, database_url)
    IN IF m.err # NoError
       THEN [err |-> StorageDatabaseError(m.err), fs |-> fs, db |-> m.db, mgr |-> None]
       ELSE IF ~is_absolute(path)
       THEN [err |-> StorageDirectoryPathIsNotAbsolute, fs |-> fs, db |-> m.db, mgr |-> None]
       ELSE IF ~is_dir(fs, path)
       THEN [err |-> StorageDirectoryDoesNotExist, fs |-> fs, db |-> m.db, mgr |-> None]
       ELSE [err |-> NoError, fs |-> fs, db |-> connect_pool(m.db, database_url).db,
             mgr |-> Some(path)]
\* StorageManager::init / init_with_config; mgr is the dir of the manager
init_with_config(fs, db, database_url, path) ==
    IF ~is_absolute(path)
    THEN [err |-> StorageDirectoryPathIsNotAbsolute, fs |-> fs, db |-> db, mgr |-> None]
    ELSE IF ~is_dir(fs, path)
    THEN [err |-> StorageDirectoryDoesNotExist, fs |-> fs, db |-> db, mgr |-> None]
    ELSE LET m == run_migrations(db, database_url)
         IN IF m.err # NoError
            THEN [err |-> StorageDatabaseError(m.err), fs |-> fs, db |-> m.db, mgr |-> None]
            ELSE [err |-> NoError, fs |-> fs, db |-> connect_pool(m.db, database_url).db,
                  mgr |-> Some(path)]

\* the strings a source is parsed from
SourceInputs == {"https://example.com", "https://example.com/", "https://example.com/file",
                 "somesource", ""}
\* a parser that keeps its input as it is
Url_parse_verbatim(input) ==
    IF input \in {"https://example.com", "https://example.com/", "https://example.com/file"}
    THEN [ok |-> TRUE, url |-> input]
    ELSE [ok |-> FALSE, url |-> ""]
\* Url::parse: the serialization of a URL without a path has the path "/";
\* a string without a scheme is no URL
Url_parse(input) ==
    CASE input = "https://example.com" -> [ok |-> TRUE, url |-> "https://example.com/"]
      [] input = "https://example.com/" -> [ok |-> TRUE, url |-> "https://example.com/"]
      [] input = "https://example.com/file" -> [ok |-> TRUE, url |-> "https://example.com/file"]
      [] OTHER -> [ok |-> FALSE, url |-> ""]
\* FileSource::parse
parse(input) ==
    IF Url_parse(input).ok THEN [tag |-> "Url", str |-> Url_parse(input).url]
    ELSE [tag |-> "Custom", str |-> input]
\* FileSource::as_str
as_str(source) == source.str
\* StorageManager::path_from_source of a manager on directory mgr_dir
manager_path_from_source(mgr_dir, source) == join(mgr_dir, <<sha256_digest(as_str(source))>>)

\* fs, db: the file system and the database file;  database_url, path: the
\* arguments of init;  res: what init returned;  before: file system and
\* database when init was called;  derived: the latest two
\* sources parsed and the paths derived from them.
NotInitialized == [called |-> FALSE, err |-> NoError, mgr |-> None]
NoSetup == [fs |-> [dirs |-> Directories, files |-> RegularFiles], db |-> NoDatabase,
            database_url |-> "db.sqlite", path |-> <<>>, res |-> NotInitialized,
            before |-> [fs |-> [dirs |-> Directories, files |-> RegularFiles],
                        db |-> NoDatabase],
            derived |-> <<>>]

\* --------------------------------------------------------------- state
VARIABLES
    files,       \* rows of the table
    seq,         \* sqlite_sequence: largest id handed out
    disk,        \* path -> file
    pc,          \* where each caller is in add_file_from_stream
    call,        \* each caller's arguments and locals
    ret,         \* what each call returned
    last,        \* the latest statement run against the bare table
    entries,     \* rows of the client's table (with ref_count)
    entry_seq,   \* number of entries inserted
    cache,       \* the client's cache directory: path -> file
    client,      \* each client's position, locals, held File and last result
    meta,        \* a FileMetadata value: store_policy, created, last_used
    probes,      \* the latest two evaluations of time_to_live / is_expired on meta
    policy,      \* a StorePolicy value handed to the SQL conversion
    stored,      \* the (tag, data) pair the conversion produced
    loaded,      \* the StorePolicy read back from the pair
    setup,       \* StorageManager::init: file system, database, arguments, result
    conn,        \* establish_connection of each connection: position, attempts, sleeps, result
    maint,       \* the maintenance runner: stage, position, locals
    strays,      \* entries of the cache directory that are not the file of a URL
    run,         \* run_once: the stages begun, the state the first run left
    tasks        \* release tasks spawned by dropped File handles: id -> number

managerVars == <<disk, pc, call, ret>>
tableVars == <<files, seq>>
clientVars == <<entries, entry_seq, cache, client>>
policyVars == <<meta, probes, policy, stored, loaded, setup, conn>>
maintVars == <<maint, strays, run, tasks>>
vars == <<files, seq, disk, pc, call, ret, last, entries, entry_seq, cache, client,
          meta, probes, policy, stored, loaded, setup, conn, maint, strays, run, tasks>>

\* source, path: the arguments;  pulled: stream.next() calls that yielded an
\* item;  ended: stream.next() yielded None;  id: what store() returned;
\* err: the error of run();  stored / opened: store() and create_new() succeeded;
\* hit: the id of the Ready row of the source when the call began (0: none);
\* looked: what the find_by_source that ended the wait saw;  co: the callers already inside
\* add_file_from_stream when this call began.
NoCall == [source |-> "", path |-> <<>>, pulled |-> 0, ended |-> FALSE,
           id |-> 0, err |-> NoError, stored |-> FALSE, opened |-> FALSE,
           hit |-> 0, looked |-> "None", co |-> {}, now |-> 0,
           write_errs |-> 0]
NoRet == [kind |-> "None", id |-> 0, status |-> "None", path |-> <<>>, err |-> NoError]
RetOk(row) == [kind |-> "Ok", id |-> row.id, status |-> row.status,
               path |-> row.cache_path, err |-> NoError]
RetErr(e) == [kind |-> "Err", id |-> 0, status |-> "None", path |-> <<>>, err |-> e]
RetPanic == [kind |-> "Panic", id |-> 0, status |-> "None", path |-> <<>>, err |-> NoError]

\* a statement, the row it was given, its result, and the table it ran on
NoStatement == [op |-> "none", new |-> [source |-> "", cache_path |-> <<>>],
                pk |-> 0, err |-> NoError, before |-> {}]

\* no storage manager call, no statement on the bare table
InitManager ==
    /\ files = {}
    /\ seq = 0
    /\ disk = [p \in Paths |-> NoFile]
    /\ pc = [p \in Procs |-> "idle"]
    /\ call = [p \in Procs |-> NoCall]
    /\ ret = [p \in Procs |-> NoRet]
    /\ last = NoStatement
\* a new cache: no entry, no file, no client at work
InitClient ==
    /\ entries = {}
    /\ entry_seq = 0
    /\ cache = [p \in CachePaths |-> NoCacheFile]
    /\ client = [c \in Clients |-> NoClient]
\* no metadata evaluated, no policy converted
InitNoPolicy ==
    /\ meta = [store_policy |-> StoreForever, created |-> 0, last_used |-> 0]
    /\ probes = <<>>
    /\ policy = StoreForever
    /\ stored = NotStored
    /\ loaded = NotLoaded
    /\ setup = NoSetup
    /\ conn = [k \in Conns |-> NoConn]
\* no maintenance run, no release task
InitNoMaint ==
    /\ maint = NoMaint
    /\ strays = {}
    /\ run = NoRun
    /\ tasks = [id \in EntryIds |-> 0]

Init == InitManager /\ InitClient /\ InitNoPolicy /\ InitNoMaint

Active(p) == pc[p] \notin {"idle", "done"}
ReadyId(table, source) ==
    IF \E r \in table : r.source = source /\ r.status = Ready
    THEN (CHOOSE r \in table : r.source = source /\ r.status = Ready).id
    ELSE 0

\* let now = Utc::now(): the clock of a call.  Calls are numbered in the
\* order in which they call and the clock has moved on between two calls.
Utc_now(p) == p

\* add_file_from_stream is called: path and metadata are built.
\* Callers are interchangeable and so are sources: callers are numbered in
\* the order in which they call, and the first caller's source is named "s1".
Call(p) ==
    /\ pc[p] = "idle"
    /\ \A q \in Procs : q < p => pc[q] # "idle"
    /\ \E s \in (IF p = 1 THEN {"s1"} ELSE Sources) :
         call' = [call EXCEPT ![p] = [NoCall EXCEPT !.source = s,
                                         !.path = path_from_source(s),
                                         !.hit = ReadyId(files, s),
                                         !.now = Utc_now(p),
                                         !.co = {q \in Procs : Active(q)}]]
    /\ pc' = [pc EXCEPT ![p] = "store"]
    /\ UNCHANGED <<files, seq, disk, ret>>
    /\ UNCHANGED <<last, clientVars, policyVars, maintVars>>

\* self.db.store(metadata).await and the match on its result
Store(p) ==
    /\ pc[p] = "store"
    /\ \/ LET r == insert(files, seq, [source |-> call[p].source,
                                        cache_path |-> call[p].path,
                                        status |-> Pending,
                                        last_used |-> call[p].now])
          IN IF r.err = NoError
             THEN /\ files' = r.table
                  /\ seq' = r.seq
                  /\ call' = [call EXCEPT ![p].id = r.id, ![p].stored = TRUE]
                  /\ pc' = [pc EXCEPT ![p] = "create"]
                  /\ UNCHANGED ret
             ELSE IF is_unique_violation(r.err)
             THEN /\ pc' = [pc EXCEPT ![p] = "wait"]
                  /\ call' = [call EXCEPT ![p].err = r.err]
                  /\ UNCHANGED <<files, seq, ret>>
             ELSE /\ pc' = [pc EXCEPT ![p] = "done"]       \* panic!("{:?}", err)
                  /\ ret' = [ret EXCEPT ![p] = RetPanic]
                  /\ call' = [call EXCEPT ![p].err = r.err]
                  /\ UNCHANGED <<files, seq>>
       \/ /\ pc' = [pc EXCEPT ![p] = "done"]   \* the pool or the insert fails otherwise
          /\ ret' = [ret EXCEPT ![p] = RetPanic]
          /\ call' = [call EXCEPT ![p].err = PoolError("store")]
          /\ UNCHANGED <<files, seq>>
    /\ UNCHANGED disk
    /\ UNCHANGED <<last, clientVars, policyVars, maintVars>>

\* run() returned Err(e): the stream is not polled again
RunFailed(c, e) == [c EXCEPT !.err = e, !.pulled = 0, !.ended = FALSE]

\* run(): fs::File::create_new(&path).await?
CreateNew(p) ==
    /\ pc[p] = "create"
    /\ \/ /\ ~disk[call[p].path].exists
          /\ disk' = [disk EXCEPT ![call[p].path] = EmptyFile]
          /\ call' = [call EXCEPT ![p].opened = TRUE]
          /\ pc' = [pc EXCEPT ![p] = "write"]
       \/ /\ disk[call[p].path].exists          \* AlreadyExists
          /\ call' = [call EXCEPT ![p] = RunFailed(@, IoError("create_new"))]
          /\ pc' = [pc EXCEPT ![p] = "revert_file"]
          /\ UNCHANGED disk
       \/ /\ ~disk[call[p].path].exists         \* any other I/O failure
          /\ call' = [call EXCEPT ![p] = RunFailed(@, IoError("create_new"))]
          /\ pc' = [pc EXCEPT ![p] = "revert_file"]
          /\ UNCHANGED disk
    /\ UNCHANGED <<files, seq, ret>>
    /\ UNCHANGED <<last, clientVars, policyVars, maintVars>>

\* run(): one turn of `while let Some(chunk_result) = stream.next().await`
StreamNext(p) ==
    /\ pc[p] = "write"
    /\ \/ /\ call' = [call EXCEPT ![p].ended = TRUE]     \* None: the stream ended
          /\ pc' = [pc EXCEPT ![p] = "update"]
          /\ UNCHANGED disk
       \/ /\ call[p].pulled < MaxStreamLen               \* Some(Ok(chunk))
          /\ \/ /\ call' = [call EXCEPT ![p].pulled = @ + 1]
                /\ disk' = [disk EXCEPT ![call[p].path] =
                                write_all(@, Chunk(p, call[p].pulled + 1))]
                /\ UNCHANGED pc
             \/ /\ call' = [call EXCEPT ![p] =   \* write_all fails (no space left, ...)
                                [RunFailed(@, IoError("write_all")) EXCEPT
                                    !.write_errs = @ + 1]]
                /\ pc' = [pc EXCEPT ![p] = "revert_file"]
                /\ UNCHANGED disk
       \/ /\ call[p].pulled < MaxStreamLen               \* Some(Err(e))
          /\ call' = [call EXCEPT ![p] = RunFailed(@, CustomError("stream"))]
          /\ pc' = [pc EXCEPT ![p] = "revert_file"]
          /\ UNCHANGED disk
    /\ UNCHANGED <<files, seq, ret>>
    /\ UNCHANGED <<last, clientVars, policyVars, maintVars>>

\* run(): self.db.update_status(id, FileStatus::Ready).await?; Ok(file)
UpdateReady(p) ==
    /\ pc[p] = "update"
    /\ \/ LET r == update_status(files, call[p].id, Ready)
          IN IF r.err = NoError
             THEN /\ files' = r.table
                  /\ ret' = [ret EXCEPT ![p] = RetOk(r.row)]
                  /\ pc' = [pc EXCEPT ![p] = "done"]
                  /\ UNCHANGED call
             ELSE /\ call' = [call EXCEPT ![p] = RunFailed(@, StorageDatabaseError(r.err))]
                  /\ pc' = [pc EXCEPT ![p] = "revert_file"]
                  /\ UNCHANGED <<files, ret>>
       \/ /\ call' = [call EXCEPT ![p] =            \* the pool or the update fails
                          RunFailed(@, StorageDatabaseError(PoolError("update_status")))]
          /\ pc' = [pc EXCEPT ![p] = "revert_file"]
          /\ UNCHANGED <<files, ret>>
    /\ UNCHANGED <<seq, disk>>
    /\ UNCHANGED <<last, clientVars, policyVars, maintVars>>

\* revert(): fs::remove_file(&path).await?  (an error here ends revert and
\* `revert().await?` returns it in place of the error of run())
RevertFile(p) ==
    /\ pc[p] = "revert_file"
    /\ \/ /\ disk[call[p].path].exists
          /\ disk' = [disk EXCEPT ![call[p].path] = NoFile]
          /\ pc' = [pc EXCEPT ![p] = "revert_row"]
          /\ UNCHANGED ret
       \/ /\ ~disk[call[p].path].exists         \* NotFound
          /\ ret' = [ret EXCEPT ![p] = RetErr(IoError("remove_file"))]
          /\ pc' = [pc EXCEPT ![p] = "done"]
          /\ UNCHANGED disk
       \/ /\ disk[call[p].path].exists          \* any other I/O failure
          /\ ret' = [ret EXCEPT ![p] = RetErr(IoError("remove_file"))]
          /\ pc' = [pc EXCEPT ![p] = "done"]
          /\ UNCHANGED disk
    /\ UNCHANGED <<files, seq, call>>
    /\ UNCHANGED <<last, clientVars, policyVars, maintVars>>

\* revert(): self.db.remove(id).await?; then Err(err) of run()
RevertRow(p) ==
    /\ pc[p] = "revert_row"
    /\ \/ /\ files' = delete(files, call[p].id)
          /\ ret' = [ret EXCEPT ![p] = RetErr(call[p].err)]
       \/ /\ ret' = [ret EXCEPT ![p] =              \* the pool or the delete fails
                        RetErr(StorageDatabaseError(PoolError("remove")))]
          /\ UNCHANGED files
    /\ pc' = [pc EXCEPT ![p] = "done"]
    /\ UNCHANGED <<seq, disk, call>>
    /\ UNCHANGED <<last, clientVars, policyVars, maintVars>>

\* a lookup that reports every row it finds as Ready
find_by_source_as_ready(table, source) ==
    {[r EXCEPT !.status = Ready] : r \in get_by_source(table, source)}

\* StorageManager::find_by_source: the rows select_by_source yields; the
\* caller takes the first
find_by_source(table, source) == get_by_source(table, source)

\* unique-violation branch: one turn of the loop over find_by_source
Lookup(p) ==
    /\ pc[p] = "wait"
    /\ \/ LET found == find_by_source(files, call[p].source)
          IN IF found = {}
             THEN /\ ret' = [ret EXCEPT ![p] = RetPanic]       \* panic!("await error")
                  /\ call' = [call EXCEPT ![p].looked = "Missing"]
                  /\ pc' = [pc EXCEPT ![p] = "done"]
             ELSE \E file \in found :
                  IF file.status = Ready
                  THEN /\ ret' = [ret EXCEPT ![p] = RetOk(file)]      \* break file
                       /\ call' = [call EXCEPT ![p].looked = file.status]
                       /\ pc' = [pc EXCEPT ![p] = "done"]
                  ELSE IF file.status = Pending
                  THEN /\ pc' = [pc EXCEPT ![p] = "sleep"]
                       /\ UNCHANGED <<call, ret>>
                  ELSE /\ ret' = [ret EXCEPT ![p] = RetPanic]         \* panic!("await error")
                       /\ call' = [call EXCEPT ![p].looked = file.status]
                       /\ pc' = [pc EXCEPT ![p] = "done"]
       \/ /\ ret' = [ret EXCEPT ![p] =              \* select_by_source fails: `?`
                        RetErr(StorageDatabaseError(PoolError("select_by_source")))]
          /\ call' = [call EXCEPT ![p].looked = "Failed"]
          /\ pc' = [pc EXCEPT ![p] = "done"]
    /\ UNCHANGED <<files, seq, disk>>
    /\ UNCHANGED <<last, clientVars, policyVars, maintVars>>

\* a waiter that marks the record it waits for as used when it wakes up
WakeTouching(p) ==
    /\ pc[p] = "sleep"
    /\ pc' = [pc EXCEPT ![p] = "wait"]
    /\ files' = {IF r.source = call[p].source THEN [r EXCEPT !.last_used = @ + 1] ELSE r :
                    r \in files}
    /\ UNCHANGED <<seq, disk, call, ret>>
    /\ UNCHANGED <<last, clientVars, policyVars, maintVars>>
\* time::sleep(Duration::from_secs(1)).await is over: the loop turns again
Wake(p) ==
    /\ pc[p] = "sleep"
    /\ pc' = [pc EXCEPT ![p] = "wait"]
    /\ UNCHANGED <<files, seq, disk, call, ret>>
    /\ UNCHANGED <<last, clientVars, policyVars, maintVars>>

\* ======================================================= storage manager
SameSource(p, q) == p # q /\ call[p].source # "" /\ call[p].source = call[q].source
\* p holds the reserved row: between its successful store() and its return
Writing(p) == pc[p] \in {"create", "write", "update", "revert_file", "revert_row"}
Waiting(p) == pc[p] \in {"wait", "sleep"}
Done(p) == pc[p] = "done"
\* some operation of p's call failed (a unique violation is no failure)
Failed(p) ==
    \/ ret[p].kind \in {"Err", "Panic"}
    \/ call[p].err # NoError /\ ~is_unique_violation(call[p].err)

\* the file system or the database failed under an operation of p's call
\* (an error item of the caller's stream is no such failure)
EnvFailed(p) ==
    \/ call[p].err.variant \in {"PoolError", "IoError", "DatabaseError"}
    \/ ret[p].err.variant \in {"IoError", "DatabaseError"}
    \/ call[p].looked = "Failed"

\* C1 (as amended): among concurrent calls on one source at most one at a time
\* holds the reserved row; only a call whose store() succeeded creates or
\* writes the file, every other call waits and never opens it; a second
\* store() succeeds only after an earlier writer failed and reverted.
C1_OneWriterAtATime ==
    /\ \A p, q \in Procs : SameSource(p, q) => ~(Writing(p) /\ Writing(q))
    /\ \A p \in Procs : call[p].opened => call[p].stored
    /\ \A p \in Procs : Waiting(p) => ~call[p].stored /\ ~call[p].opened
    /\ \A p, q \in Procs :
         SameSource(p, q) /\ call[p].stored /\ call[q].stored
            => ret[p].kind = "Err" \/ ret[q].kind = "Err"
    /\ \A s \in Sources :
         \A i \in 1..Len(disk[path_from_source(s)].data) :
            LET w == disk[path_from_source(s)].data[i][1]
            IN call[w].stored /\ call[w].opened /\ call[w].source = s

\* C1 as stated: of the calls that run concurrently on one source at most
\* one has its store() succeed (looked at only where neither the file system
\* nor the database failed).
C1_AtMostOneStoreSucceeds ==
    \A q \in Procs : \A p \in call[q].co :
        SameSource(p, q) /\ ~EnvFailed(p) /\ ~EnvFailed(q)
            => ~(call[p].stored /\ call[q].stored)

\* C1 witness: a writer has opened the file while a concurrent caller of the
\* same source waits in the unique-violation branch.
C1_Witness ==
    \E p, q \in Procs :
        /\ SameSource(p, q) /\ p \in call[q].co
        /\ pc[p] = "write" /\ call[p].opened /\ call[p].pulled > 0
        /\ pc[q] = "wait"

\* The callers that have called add_file_from_stream on source s
Callers(s) == {p \in Procs : call[p].source = s}
\* p called stream.next() at least once
Consumed(p) == call[p].pulled > 0 \/ call[p].ended

C4_WriterResult ==
    \A p \in Procs :
        call[p].stored /\ ret[p].kind = "Ok" =>
            /\ ret[p].path = path_from_source(call[p].source)
            /\ disk[ret[p].path].exists
            /\ disk[ret[p].path].data = Chunks(p, call[p].pulled)
            /\ call[p].ended
            /\ ret[p].status = Ready
            /\ ret[p].id = call[p].id

\* C4 witness: a writer returned Ok after a stream of MaxStreamLen chunks while
\* another writer returned Ok after an empty stream.
C4_Witness ==
    \E p, q \in Procs :
        /\ call[p].stored /\ ret[p].kind = "Ok" /\ call[p].pulled = MaxStreamLen
        /\ call[q].stored /\ ret[q].kind = "Ok" /\ call[q].pulled = 0
        /\ disk[ret[q].path] = EmptyFile

C6_FailureRevertsAll ==
    \A p \in Procs :
        Done(p) /\ call[p].stored /\ ret[p].kind # "Ok" =>
            /\ ret[p].kind = "Err"
            /\ ~HasRow(files, call[p].id)
            /\ disk[call[p].path].exists =>
                 \E q \in Procs : SameSource(p, q) /\ call[q].opened

\* C8: the table never holds two rows of one source or two rows of one path,
\* so select_by_source / find_by_source yields at most one record.
C8_UniqueSourceAndPath ==
    /\ \A s \in Sources : Cardinality(find_by_source(files, s)) <= 1
    /\ \A r1, r2 \in files :
         (r1.source = r2.source \/ r1.cache_path = r2.cache_path) => r1 = r2

\* C8 witness: a store() for a source that has a row was refused, and that
\* row is still the only one of its source and of its path.
C8_Witness ==
    \E p \in Procs :
        /\ Waiting(p) /\ is_unique_violation(call[p].err)
        /\ Cardinality(find_by_source(files, call[p].source)) = 1
        /\ Cardinality({r \in files : r.cache_path = call[p].path}) = 1

\* C9 as stated: in the unique-violation branch a lookup that finds the record
\* ToRemove or Corrupted, or finds no record, makes the call return the
\* AwaitingError variant as an error value.
C9_AwaitingErrorReturned ==
    \A p \in Procs :
        Done(p) /\ call[p].looked \in {"Missing", ToRemove, Corrupted} =>
            ret[p].kind = "Err" /\ ret[p].err = AwaitingError

\* C12 as stated: after a failure in the writer branch both cleanups are
\* attempted, and a failure of one does not prevent the other: a call whose
\* deletion of the file failed has nevertheless had its Pending row removed.
C12_RowRemovedWhenFileDeleteFails ==
    \A p \in Procs :
        Done(p) /\ call[p].stored /\ ret[p].err = IoError("remove_file") =>
            ~HasRow(files, call[p].id)

\* C13 as stated: a call whose write failed returns the error of the write,
\* unless both cleanups failed; only then is the error of the cleanup returned,
\* and then the file and the record are both still there.
C13_OriginalErrorUnlessBothFail ==
    \A p \in Procs :
        Done(p) /\ call[p].stored /\ call[p].err # NoError =>
            /\ ret[p].kind = "Err"
            /\ \/ ret[p].err = call[p].err
               \/ /\ HasRow(files, call[p].id)
                  /\ disk[call[p].path].exists

\* C25 as stated: a call that collapsed to a Ready record another call
\* stored (its lookup hit the record and it returned it) leaves the record
\* with a last_used no earlier than the time of the call.
C25_LastUsedAdvanced ==
    \A p \in Procs :
        Done(p) /\ ~call[p].stored /\ ret[p].kind = "Ok" /\ HasRow(files, ret[p].id) =>
            Row(files, ret[p].id).last_used >= call[p].now

\* C26 as stated: a call reports the failure of a write only after the
\* write was tried again once, that is after write_all failed twice.
C26_WriteRetriedOnce ==
    \A p \in Procs :
        Done(p) /\ call[p].err = IoError("write_all") => call[p].write_errs = 2

\* C29 as stated: a call whose store() failed with an error that is not a
\* unique violation returns that error as an error value, and it has created
\* no file and left no row.
C29_StoreErrorReturned ==
    \A p \in Procs :
        Done(p) /\ ~call[p].stored /\ call[p].err = PoolError("store") =>
            /\ ret[p].kind = "Err"
            /\ ret[p].err = StorageDatabaseError(call[p].err)
            /\ ~call[p].opened

Next ==
    \E p \in Procs :
        \/ Call(p)
        \/ Store(p)
        \/ CreateNew(p)
        \/ StreamNext(p)
        \/ UpdateReady(p)
        \/ RevertFile(p)
        \/ RevertRow(p)
        \/ Lookup(p)
        \/ Wake(p)

Spec == Init /\ [][Next]_vars

\* A call that was made is scheduled again and again until it returns: the
\* runtime polls every task that is ready.  Nothing obliges a caller to call.
Step(p) ==
    \/ Store(p) \/ CreateNew(p) \/ StreamNext(p) \/ UpdateReady(p)
    \/ RevertFile(p) \/ RevertRow(p) \/ Lookup(p) \/ Wake(p)
SpecFair == Spec /\ \A p \in Procs : WF_vars(Step(p))

\* C11 as stated: once no writer of its source is in flight any more, a call
\* waiting in the Pending poll loop eventually returns (looked at only where
\* the database did not fail under the writer).
C11_WaitersReturn ==
    \A q \in Procs :
        (/\ Waiting(q)
         /\ \A w \in Procs : SameSource(w, q) =>
                /\ ~Writing(w) /\ pc[w] # "store"
                /\ call[w].err.variant \notin {"PoolError", "DatabaseError"}
                /\ ret[w].err.variant # "DatabaseError")
            ~> Done(q)

\* ------------------------------------------------------- cancellation
\* The caller drops the future of add_file_from_stream while it is suspended
\* at an await between the return of store() and the return of
\* update_status(): the locals are dropped (the open file is closed) and no
\* further statement of the call runs.
Cancel(p) ==
    /\ pc[p] \in {"create", "write", "update"}
    /\ pc' = [pc EXCEPT ![p] = "cancelled"]
    /\ UNCHANGED <<files, seq, disk, call, ret>>
    /\ UNCHANGED <<last, clientVars, policyVars, maintVars>>

NextCancel == Next \/ \E p \in Procs : Cancel(p)
\* calls are polled until they return or are dropped; nothing obliges a
\* caller to drop a call
SpecCancel == Init /\ [][NextCancel]_vars /\ \A p \in Procs : WF_vars(Step(p))

\* C30 as stated: after a call was cancelled between store() and the update
\* to Ready, eventually no Pending row of its source and no file at its
\* path remain.
C30_CancelReverts ==
    \A p \in Procs :
        (pc[p] = "cancelled") ~>
            /\ call[p].path \in Paths
            /\ ~\E r \in files : r.source = call[p].source /\ r.status = Pending
            /\ ~disk[call[p].path].exists

\* The caller drops the future of add_file_from_stream while it is in the
\* unique-violation branch, suspended in find_by_source or in the sleep: the
\* locals (source, path, metadata) are dropped and nothing else happens.
CancelWaiter(p) ==
    /\ pc[p] \in {"wait", "sleep"}
    /\ pc' = [pc EXCEPT ![p] = "dropped"]
    /\ UNCHANGED <<files, seq, disk, call, ret>>
    /\ UNCHANGED <<last, clientVars, policyVars, maintVars>>

\* C36: a step of a caller that is in the unique-violation branch, up to
\* and including the step by which it returns or is cancelled, changes no
\* row of the table and no file.
C36_WaitersOnlyRead ==
    [][\A p \in Procs :
          (Waiting(p) /\ <<pc'[p], call'[p], ret'[p]>> # <<pc[p], call[p], ret[p]>>) =>
              UNCHANGED <<files, seq, disk>>
      ]_vars

\* C36 witness: one waiter was cancelled in the branch while the writer of
\* the same source has its Pending row and a partial file with a chunk in it.
C36_Witness ==
    \E p, q \in Procs :
        /\ pc[p] = "dropped" /\ pc[q] = "write" /\ SameSource(p, q)
        /\ \E r \in files : r.source = call[q].source /\ r.status = Pending
        /\ disk[call[q].path].exists /\ disk[call[q].path].data # <<>>

NextWaiters == Next \/ \E p \in Procs : CancelWaiter(p)
SpecWaiters == Init /\ [][NextWaiters]_vars

\* ========================================================= the bare table
\* The statements of sqlite/api.rs run directly, with any source and any path.

\* api::insert with a new row of default status
DbInsert ==
    /\ seq < MaxRowId
    /\ \E source \in Sources, cache_path \in Paths :
         LET new == [source |-> source, cache_path |-> cache_path, status |-> Pending,
                     last_used |-> 0]
             r == insert(files, seq, new)
         IN /\ files' = r.table
            /\ seq' = r.seq
            /\ last' = [op |-> "insert",
                        new |-> [source |-> source, cache_path |-> cache_path],
                        pk |-> r.id, err |-> r.err, before |-> files]
    /\ UNCHANGED <<managerVars, clientVars, policyVars, maintVars>>

\* api::delete
DbDelete ==
    /\ \E pk \in 1..MaxRowId :
         /\ files' = delete(files, pk)
         /\ last' = [NoStatement EXCEPT !.op = "delete", !.pk = pk, !.before = files]
    /\ UNCHANGED <<seq, managerVars, clientVars, policyVars, maintVars>>

\* api::update_status
DbUpdateStatus ==
    /\ \E pk \in 1..MaxRowId, status \in FileStatus :
         LET r == update_status(files, pk, status)
         IN /\ files' = r.table
            /\ last' = [NoStatement EXCEPT !.op = "update_status", !.pk = pk,
                                           !.err = r.err, !.before = files]
    /\ UNCHANGED <<seq, managerVars, clientVars, policyVars, maintVars>>

NextDb == DbInsert \/ DbDelete \/ DbUpdateStatus
SpecDb == Init /\ [][NextDb]_vars

\* ============================================================ the client
\* Client::get, Client::remove, Client::schedule_for_removal and
\* File::release, one action per await point.  The retry policy is
\* RetryPolicy::None; the database and the file system fail only as the
\* state makes them fail (a missing row, a missing file); a download may
\* fail at any point.

\* the call of client c returns res; its locals are dropped
Returned(c, res, held) ==
    [NoClient EXCEPT !.held = held, !.res = res,
                     !.clones = IF held = client[c].held THEN client[c].clones ELSE 0,
                     !.held_url = IF held = client[c].held THEN client[c].held_url
                                  ELSE client[c].url]

\* Client::get up to the match on the result of api::new_entry
Get(c) ==
    /\ client[c].pc = "idle"
    /\ client[c].held = 0
    /\ \E url \in Urls :
         LET r == new_entry(entries, entry_seq, url, cache_path_of(url))
         IN IF r.err = NoError
            THEN /\ entry_seq < MaxEntries
                 /\ entries' = r.table
                 /\ entry_seq' = r.seq
                 /\ client' = [client EXCEPT ![c] =
                        [NoClient EXCEPT !.pc = "fetch_create", !.op = "get", !.url = url,
                                         !.id = r.entry.id, !.path = r.entry.cache_path,
                                         !.ino = r.seq, !.status = r.entry.status]]
            ELSE /\ is_unique_violation(r.err)
                 /\ client' = [client EXCEPT ![c] =
                        [NoClient EXCEPT !.pc = "wait_lookup", !.op = "get", !.url = url]]
                 /\ UNCHANGED <<entries, entry_seq>>
    /\ UNCHANGED <<cache, tableVars, managerVars, last, policyVars, maintVars>>

\* fetch_entry: fs::File::create(&entry.cache_path)
FetchCreate(c) ==
    /\ client[c].pc = "fetch_create"
    /\ cache' = [cache EXCEPT ![client[c].path] = file_create(@, client[c].ino)]
    /\ client' = [client EXCEPT ![c].pc = "fetch_stream",
                                ![c].ino = cache'[client[c].path].ino,
                                ![c].off = 0]
    /\ UNCHANGED <<entries, entry_seq, tableVars, managerVars, last, policyVars, maintVars>>

\* fetch_entry: the request and one turn of the loop over the body.  A write
\* through the handle reaches the path only while the file the handle was
\* opened on is still the file at the path.
FetchStream(c) ==
    /\ client[c].pc = "fetch_stream"
    /\ \/ /\ client[c].off < BodyLen                    \* Some(Ok(chunk)); write_all
          /\ LET f == cache[client[c].path]
             IN cache' = IF f.exists /\ f.ino = client[c].ino
                         THEN [cache EXCEPT ![client[c].path].data =
                                  WriteAt(@, client[c].off,
                                          Chunk(client[c].id, client[c].off + 1))]
                         ELSE cache
          /\ client' = [client EXCEPT ![c].off = @ + 1]
       \/ /\ client[c].off = BodyLen                    \* None
          /\ client' = [client EXCEPT ![c].pc = "fetch_update"]
          /\ UNCHANGED cache
       \/ /\ client[c].off < BodyLen                    \* send / status / chunk error
          /\ client' = [client EXCEPT ![c].pc = "cleanup_file",
                                      ![c].err = CustomError("download")]
          /\ UNCHANGED cache
    /\ UNCHANGED <<entries, entry_seq, tableVars, managerVars, last, policyVars, maintVars>>

\* fetch_entry: api::update_status(entry.id, FileStatus::Ready)
FetchUpdate(c) ==
    /\ client[c].pc = "fetch_update"
    /\ LET r == entry_update_status(entries, client[c].id, Ready)
       IN IF r.err = NoError
          THEN /\ entries' = r.table
               /\ client' = [client EXCEPT ![c].pc = "lock", ![c].status = r.entry.status]
          ELSE /\ client' = [client EXCEPT ![c].pc = "cleanup_file", ![c].err = r.err]
               /\ UNCHANGED entries
    /\ UNCHANGED <<entry_seq, cache, tableVars, managerVars, last, policyVars, maintVars>>

\* cleanup_entry: fs::remove_file(&entry.cache_path)
CleanupFile(c) ==
    /\ client[c].pc = "cleanup_file"
    /\ cache' = [cache EXCEPT ![client[c].path] = NoCacheFile]
    /\ client' = [client EXCEPT ![c].pc = "cleanup_row"]
    /\ UNCHANGED <<entries, entry_seq, tableVars, managerVars, last, policyVars, maintVars>>

\* cleanup_entry: api::delete_unsafe(entry.id); get returns the download error
CleanupRow(c) ==
    /\ client[c].pc = "cleanup_row"
    /\ entries' = delete_unsafe(entries, client[c].id)
    /\ client' = [client EXCEPT ![c] = Returned(c, ResErr(client[c].err), client[c].held)]
    /\ UNCHANGED <<entry_seq, cache, tableVars, managerVars, last, policyVars, maintVars>>

\* wait_entry: api::get_by_url(url).map(|entry| entry.id)
WaitLookup(c) ==
    /\ client[c].pc = "wait_lookup"
    /\ LET found == get_by_url(entries, client[c].url)
       IN IF found = {}
          THEN client' = [client EXCEPT ![c] =
                             Returned(c, ResErr(UrlNotCached), client[c].held)]
          ELSE \E e \in found :
                 client' = [client EXCEPT ![c].pc = "wait_poll", ![c].id = e.id]
    /\ UNCHANGED <<entries, entry_seq, cache, tableVars, managerVars, last, policyVars, maintVars>>

\* wait_entry: one turn of the loop over api::get_entry(id)
WaitPoll(c) ==
    /\ client[c].pc = "wait_poll"
    /\ LET r == get_entry(entries, client[c].id)
       IN IF r.err = NoError /\ r.entry.status = Pending
          THEN UNCHANGED client                          \* time::sleep
          ELSE IF r.err = NoError
          THEN client' = [client EXCEPT ![c].pc = "lock",   \* Ok(entry) => return Ok(entry)
                                       ![c].status = r.entry.status,
                                       ![c].path = r.entry.cache_path]
          ELSE client' = [client EXCEPT ![c] =        \* is_not_found
                             Returned(c, ResErr(AwaitingError), client[c].held)]
    /\ UNCHANGED <<entries, entry_seq, cache, tableVars, managerVars, last, policyVars, maintVars>>

\* create_locked_file: File::from_entry(entry), api::increment_ref(file.id)
CreateLockedFile(c) ==
    /\ client[c].pc = "lock"
    /\ LET r == increment_ref(entries, client[c].id)
       IN IF r.err = NoError
          THEN /\ entries' = r.table
               /\ client' = [client EXCEPT ![c] =
                      Returned(c, ResFile(client[c].id, client[c].status), client[c].id)]
          ELSE /\ client' = [client EXCEPT ![c] = Returned(c, ResErr(r.err), client[c].held)]
               /\ UNCHANGED entries
    /\ UNCHANGED <<entry_seq, cache, tableVars, managerVars, last, policyVars, maintVars>>

\* the client has one File value less: the last one, or one of the clones
dropped(cl) ==
    IF cl.clones > 0 THEN [cl EXCEPT !.clones = @ - 1]
    ELSE [cl EXCEPT !.held = 0, !.held_url = ""]

\* File::release: api::decrement_ref(self.id), the File is consumed
Release(c) ==
    /\ client[c].pc = "idle"
    /\ client[c].held # 0
    /\ entries' = decrement_ref(entries, client[c].held).table
    /\ client' = [client EXCEPT ![c] = dropped(client[c])]
    /\ UNCHANGED <<entry_seq, cache, tableVars, managerVars, last, policyVars, maintVars>>

\* Client::find: api::get_by_url(url), then create_locked_file(entry) if the
\* URL is cached
Find(c) ==
    /\ client[c].pc = "idle"
    /\ client[c].held = 0
    /\ \E url \in Urls :
         LET found == get_by_url(entries, url)
         IN IF found = {}
            THEN client' = [client EXCEPT ![c] = Returned(c, NoRes, 0)]
            ELSE \E e \in found :
                   client' = [client EXCEPT ![c] =
                      [NoClient EXCEPT !.pc = "lock", !.op = "find", !.url = url,
                                       !.id = e.id, !.path = e.cache_path,
                                       !.status = e.status]]
    /\ UNCHANGED <<entries, entry_seq, cache, tableVars, managerVars, last, policyVars, maintVars>>

\* File::clone (derived): a second File value with the same id and the same
\* `released` flag; the database is not touched
CloneFile(c) ==
    /\ client[c].pc = "idle"
    /\ client[c].held # 0
    /\ client[c].clones < MaxClones
    /\ \A e \in entries : e.id = client[c].held => e.ref_count > 0   \* keeps the counter bounded
    /\ client' = [client EXCEPT ![c].clones = @ + 1]
    /\ UNCHANGED <<entries, entry_seq, cache, tableVars, managerVars, last, policyVars, maintVars>>

\* a File value goes out of scope: Drop for File spawns the release task
DropFile(c) ==
    /\ client[c].pc = "idle"
    /\ client[c].held # 0
    /\ tasks[client[c].held] < MaxTasks
    /\ tasks' = drop(tasks, client[c].held)
    /\ client' = [client EXCEPT ![c] = dropped(client[c])]
    /\ UNCHANGED <<entries, entry_seq, cache, maint, strays, run>>
    /\ UNCHANGED <<tableVars, managerVars, last, policyVars>>

\* the File values of entry id that are alive and not released
Handles(id) ==
    LET of(c) == IF client[c].held = id THEN 1 + client[c].clones ELSE 0
        sum[S \in SUBSET Clients] ==
            IF S = {} THEN 0
            ELSE LET c == CHOOSE x \in S : TRUE IN of(c) + sum[S \ {c}]
    IN sum[Clients]

\* Client::remove and Client::schedule_for_removal up to the first
\* api::get_by_url of schedule_for_removal
Remove(c) ==
    /\ client[c].pc = "idle"
    /\ \E url \in Urls, op \in {"remove", "schedule_for_removal"} :
         LET found == get_by_url(entries, url)
         IN IF found = {}
            THEN client' = [client EXCEPT ![c] =
                    IF op = "remove"
                    THEN [NoClient EXCEPT !.pc = "rm_lookup", !.op = op, !.url = url,
                                          !.held = client[c].held,
                                          !.clones = client[c].clones,
                                          !.held_url = client[c].held_url]
                    ELSE Returned(c, ResUnit, client[c].held)]
            ELSE \E e \in found :
                   client' = [client EXCEPT ![c] =
                      [NoClient EXCEPT !.pc = "rm_mark", !.op = op, !.url = url,
                                       !.id = e.id, !.held = client[c].held,
                                       !.clones = client[c].clones,
                                       !.held_url = client[c].held_url]]
    /\ UNCHANGED <<entries, entry_seq, cache, tableVars, managerVars, last, policyVars, maintVars>>

\* schedule_for_removal: api::update_status(entry.id, FileStatus::ToRemove)
RemoveMark(c) ==
    /\ client[c].pc = "rm_mark"
    /\ LET r == entry_update_status(entries, client[c].id, ToRemove)
       IN IF r.err = NoError
          THEN /\ entries' = r.table
               /\ client' = [client EXCEPT ![c] =
                      IF client[c].op = "remove"
                      THEN [client[c] EXCEPT !.pc = "rm_lookup", !.id = 0]
                      ELSE Returned(c, ResUnit, client[c].held)]
          ELSE /\ client' = [client EXCEPT ![c] = Returned(c, ResErr(r.err), client[c].held)]
               /\ UNCHANGED entries
    /\ UNCHANGED <<entry_seq, cache, tableVars, managerVars, last, policyVars, maintVars>>

\* remove: api::get_by_url(url)
RemoveLookup(c) ==
    /\ client[c].pc = "rm_lookup"
    /\ LET found == get_by_url(entries, client[c].url)
       IN IF found = {}
          THEN client' = [client EXCEPT ![c] = Returned(c, ResUnit, client[c].held)]
          ELSE \E e \in found :
                 client' = [client EXCEPT ![c].pc = "rm_entry", ![c].id = e.id,
                                          ![c].path = e.cache_path]
    /\ UNCHANGED <<entries, entry_seq, cache, tableVars, managerVars, last, policyVars, maintVars>>

\* remove: api::remove_entry(entry.id)
RemoveEntry(c) ==
    /\ client[c].pc = "rm_entry"
    /\ LET r == remove_entry(entries, client[c].id)
       IN IF r.err = NoError
          THEN /\ entries' = r.table
               /\ client' = [client EXCEPT ![c].pc = "rm_file"]
          ELSE /\ client' = [client EXCEPT ![c] = Returned(c, ResErr(r.err), client[c].held)]
               /\ UNCHANGED entries
    /\ UNCHANGED <<entry_seq, cache, tableVars, managerVars, last, policyVars, maintVars>>

\* remove: fs::remove_file(entry.cache_path)
RemoveFile(c) ==
    /\ client[c].pc = "rm_file"
    /\ IF cache[client[c].path].exists
       THEN /\ cache' = [cache EXCEPT ![client[c].path] = NoCacheFile]
            /\ client' = [client EXCEPT ![c] = Returned(c, ResUnit, client[c].held)]
       ELSE /\ client' = [client EXCEPT ![c] =
                   Returned(c, ResErr(IoError("remove_file")), client[c].held)]
            /\ UNCHANGED cache
    /\ UNCHANGED <<entries, entry_seq, tableVars, managerVars, last, policyVars, maintVars>>

\* C3 as stated: in every reachable state a Ready entry has a file at its
\* path that holds the complete body written by the call that promoted it.
C3_ReadyHasCompleteFile ==
    \A e \in entries :
        e.status = Ready =>
            /\ cache[e.cache_path].exists
            /\ cache[e.cache_path].data = Chunks(e.id, BodyLen)

\* C10 as stated: every File that get returns belongs to an entry that was
\* Ready when get last read it.
C10_OnlyReadyReturned ==
    \A c \in Clients : client[c].res.kind = "File" => client[c].res.status = Ready

\* C23 as stated: no step deletes the row or the file of a URL while a
\* client holds, before and after the step, a File of that URL that get
\* returned and that was not released.
C23_HeldFileNotRemoved ==
    [][\A c \in Clients :
          (/\ client[c].held # 0
           /\ client'[c].held = client[c].held
           /\ client'[c].held_url = client[c].held_url) =>
             LET url == client[c].held_url
             IN /\ get_by_url(entries, url) # {} => get_by_url(entries', url) # {}
                /\ cache[cache_path_of(url)].exists => cache'[cache_path_of(url)].exists
      ]_vars

\* C24 as stated: an id once assigned is never assigned to a later entry.
\* Two clients that each inserted an entry (ino is the number of the insert)
\* work on entries of different ids, also when the earlier entry was removed
\* in between.
C24_IdNeverAssignedTwice ==
    \A c1, c2 \in Clients :
        /\ client[c1].ino # 0 /\ client[c2].ino # 0
        /\ client[c1].ino # client[c2].ino
        => client[c1].id # client[c2].id

\* C39 as stated: no step sets to Ready an entry whose status is ToRemove or
\* Corrupted.
C39_NeverBackToReady ==
    [][\A e \in entries : \A f \in entries' :
          (f.id = e.id /\ e.status \in {ToRemove, Corrupted}) => f.status # Ready
      ]_vars

\* a step of client c in get, File::release, remove or schedule_for_removal
ClientStep(c) ==
    \/ Get(c) \/ FetchCreate(c) \/ FetchStream(c) \/ FetchUpdate(c)
    \/ CleanupFile(c) \/ CleanupRow(c)
    \/ WaitLookup(c) \/ WaitPoll(c) \/ CreateLockedFile(c) \/ Release(c)
    \/ Remove(c) \/ RemoveMark(c) \/ RemoveLookup(c) \/ RemoveEntry(c) \/ RemoveFile(c)
NextClient == \E c \in Clients : ClientStep(c)
SpecClient == Init /\ [][NextClient]_vars

\* ------------------------------------------------------ maintenance stages
\* A stage may begin: the runner is idle and, under run_once, the stage is
\* the next of the two runs; a stage run on its own may begin at any time.
CanStart(stage) ==
    /\ maint.pc = "idle"
    /\ run.forever => \A id \in EntryIds : tasks[id] <= MaxTasks
    /\ IF run.cycle
       THEN /\ run.forever \/ run.step < 2 * Len(StageOrder)
            /\ StageOrder[(run.step % Len(StageOrder)) + 1] = stage
       ELSE maint.runs < MaxRuns
\* run_once goes on to its next stage; the second run_once begins on the
\* state the first one left
Started(now) ==
    IF run.forever
    THEN [run EXCEPT !.step = (@ + 1) % Len(StageOrder)]
    ELSE IF run.cycle
    THEN [run EXCEPT !.step = @ + 1,
                     !.once = IF run.step = Len(StageOrder)
                              THEN [entries |-> entries, cache |-> cache, strays |-> strays]
                              ELSE @,
                     !.now = @ \o now]
    ELSE run

\* CacheCleaner::schedule_for_removal / find_corrupted_cache_entries begin:
\* now = Utc::now(); files = self.client.list().await?
List(stage) ==
    /\ CanStart(stage)
    /\ \E now \in 0..TicksPerSecond :
         /\ maint' = [NoMaint EXCEPT !.pc = IF stage = "clean" THEN "expires" ELSE "check",
                                     !.stage = stage,
                                     !.now = IF stage = "clean" THEN now ELSE 0,
                                     !.files = list(entries).files,
                                     !.before = entries, !.cache_before = cache,
                                     !.strays_before = strays,
                                     !.runs = IF run.forever THEN 0 ELSE maint.runs + 1]
         /\ run' = Started(IF stage = "clean" THEN <<now>> ELSE <<>>)
    /\ entries' = list(entries).table
    /\ UNCHANGED <<entry_seq, cache, client, tasks>>
    /\ UNCHANGED strays
    /\ UNCHANGED <<tableVars, managerVars, last, policyVars>>

\* CacheCleaner::schedule_for_removal, first loop: file.expires().await?, the
\* file is kept if it expired before now and dropped otherwise
Expires ==
    /\ maint.pc = "expires"
    /\ IF maint.files = <<>>
       THEN maint' = [maint EXCEPT !.pc = "schedule"] /\ UNCHANGED tasks
       ELSE LET file == Head(maint.files)
                r == get_entry(entries, file.id)
            IN IF r.err # NoError       \* `?`: every handle is dropped
               THEN /\ maint' = [maint EXCEPT !.pc = "idle", !.files = <<>>,
                                              !.to_remove = <<>>, !.err = r.err,
                                              !.left = Len(maint.files) - 1]
                    /\ tasks' = [id \in EntryIds |->
                                   tasks[id] + Cardinality(
                                     {i \in DOMAIN maint.files : maint.files[i].id = id})
                                   + Cardinality({i \in DOMAIN maint.to_remove :
                                                    maint.to_remove[i].id = id})]
               ELSE IF Expired(r.entry, maint.now)
               THEN /\ maint' = [maint EXCEPT !.files = Tail(@),
                                              !.to_remove = Append(@, file)]
                    /\ UNCHANGED tasks
               ELSE /\ maint' = [maint EXCEPT !.files = Tail(@)]
                    /\ tasks' = drop(tasks, file.id)
    /\ UNCHANGED <<entries, entry_seq, cache, client>>
    /\ UNCHANGED <<strays, run>>
    /\ UNCHANGED <<tableVars, managerVars, last, policyVars>>

\* CacheCleaner::schedule_for_removal, first loop, when file.expires() cannot
\* read the entry (establish_connection or get_entry returns an error): `?`
\* returns the error from the stage and every handle is dropped
ExpiresFails ==
    /\ maint.pc = "expires"
    /\ maint.files # <<>>
    /\ maint' = [maint EXCEPT !.pc = "idle", !.files = <<>>, !.to_remove = <<>>,
                              !.err = PoolError("expires"),
                              !.left = Len(maint.files) - 1]
    /\ tasks' = [id \in EntryIds |->
                   tasks[id] + Cardinality({i \in DOMAIN maint.files : maint.files[i].id = id})
                   + Cardinality({i \in DOMAIN maint.to_remove :
                                    maint.to_remove[i].id = id})]
    /\ UNCHANGED <<entries, entry_seq, cache, client>>
    /\ UNCHANGED <<strays, run>>
    /\ UNCHANGED <<tableVars, managerVars, last, policyVars>>

\* CacheCleaner::schedule_for_removal, second loop:
\* self.client.schedule_for_removal(file.url()), then the file is dropped
Schedule ==
    /\ maint.pc = "schedule"
    /\ IF maint.to_remove = <<>>
       THEN maint' = [maint EXCEPT !.pc = "filter"] /\ UNCHANGED <<entries, tasks>>
       ELSE /\ entries' = schedule_for_removal(entries, Head(maint.to_remove).url)
            /\ tasks' = drop(tasks, Head(maint.to_remove).id)
            /\ maint' = [maint EXCEPT !.to_remove = Tail(@)]
    /\ UNCHANGED <<entry_seq, cache, client>>
    /\ UNCHANGED <<strays, run>>
    /\ UNCHANGED <<tableVars, managerVars, last, policyVars>>

\* CacheCleaner::remove begins: filter_by_status(ToRemove);
\* remove_corrupted_entries begins: filter_by_status(Corrupted)
FilterByStatus ==
    /\ \/ /\ maint.pc = "filter"
          /\ maint' = [maint EXCEPT !.pc = "remove",
                                    !.listed = filter_by_status(entries, ToRemove)]
          /\ UNCHANGED run
       \/ /\ CanStart("remove_corrupted")
          /\ maint' = [NoMaint EXCEPT !.pc = "remove_corrupted",
                                      !.stage = "remove_corrupted",
                                      !.listed = filter_by_status(entries, Corrupted),
                                      !.before = entries, !.cache_before = cache,
                                      !.strays_before = strays,
                                      !.runs = IF run.forever THEN 0 ELSE maint.runs + 1]
          /\ run' = Started(<<>>)
    /\ UNCHANGED <<entries, entry_seq, cache, client, tasks>>
    /\ UNCHANGED strays
    /\ UNCHANGED <<tableVars, managerVars, last, policyVars>>

\* CacheCleaner::remove, the loop: self.client.remove(&entry.url), an error is logged
CleanerRemove ==
    /\ maint.pc = "remove"
    /\ IF maint.listed = <<>>
       THEN maint' = [maint EXCEPT !.pc = "idle"] /\ UNCHANGED <<entries, cache>>
       ELSE LET r == client_remove(entries, cache, Head(maint.listed).url)
            IN /\ entries' = r.table
               /\ cache' = r.cache
               /\ maint' = [maint EXCEPT !.listed = Tail(@)]
    /\ UNCHANGED <<entry_seq, client, tasks>>
    /\ UNCHANGED <<strays, run>>
    /\ UNCHANGED <<tableVars, managerVars, last, policyVars>>

\* find_corrupted_cache_entries, the loop: check_file(&file) sets Corrupted
\* when file.cache_path() does not exist; then the file is dropped
CheckFile ==
    /\ maint.pc = "check"
    /\ IF maint.files = <<>>
       THEN maint' = [maint EXCEPT !.pc = "idle"] /\ UNCHANGED <<entries, tasks>>
       ELSE LET file == Head(maint.files)
            IN /\ entries' = IF cache[file.cache_path].exists THEN entries
                             ELSE entry_update_status(entries, file.id, Corrupted).table
               /\ tasks' = drop(tasks, file.id)
               /\ maint' = [maint EXCEPT !.files = Tail(@)]
    /\ UNCHANGED <<entry_seq, cache, client>>
    /\ UNCHANGED <<strays, run>>
    /\ UNCHANGED <<tableVars, managerVars, last, policyVars>>

\* find_corrupted_cache_entries, the loop, when check_file returns an error
\* (the status cannot be written): the error is logged, the file is dropped
\* and the loop goes on
CheckFileFails ==
    /\ maint.pc = "check"
    /\ maint.files # <<>>
    /\ ~cache[Head(maint.files).cache_path].exists
    /\ tasks' = drop(tasks, Head(maint.files).id)
    /\ maint' = [maint EXCEPT !.files = Tail(@)]
    /\ UNCHANGED <<entries, entry_seq, cache, client>>
    /\ UNCHANGED <<strays, run>>
    /\ UNCHANGED <<tableVars, managerVars, last, policyVars>>

\* remove_corrupted_entries, the loop: schedule_for_removal(&entry.url),
\* remove_entry(entry.id) (an error is logged), and remove_file if the path exists
RemoveCorrupted ==
    /\ maint.pc = "remove_corrupted"
    /\ IF maint.listed = <<>>
       THEN maint' = [maint EXCEPT !.pc = "idle"] /\ UNCHANGED <<entries, cache>>
       ELSE LET entry == Head(maint.listed)
                marked == schedule_for_removal(entries, entry.url)
            IN /\ entries' = remove_entry(marked, entry.id).table
               /\ cache' = [cache EXCEPT ![entry.cache_path] = NoCacheFile]
               /\ maint' = [maint EXCEPT !.listed = Tail(@)]
    /\ UNCHANGED <<entry_seq, client, tasks>>
    /\ UNCHANGED <<strays, run>>
    /\ UNCHANGED <<tableVars, managerVars, last, policyVars>>

\* the task spawned by Drop for File: decrement_ref(id), an error is logged
ReleaseTask(id) ==
    /\ tasks[id] > 0
    /\ tasks' = [tasks EXCEPT ![id] = @ - 1]
    /\ entries' = decrement_ref(entries, id).table
    /\ UNCHANGED <<entry_seq, cache, client, maint>>
    /\ UNCHANGED <<strays, run>>
    /\ UNCHANGED <<tableVars, managerVars, last, policyVars>>

\* prune_dangling_files begins: fs::read_dir(&self.client.cache_dir)
ReadDir ==
    /\ CanStart("prune")
    /\ maint' = [NoMaint EXCEPT !.pc = "prune", !.stage = "prune",
                                !.dir = read_dir(cache, strays),
                                !.before = entries, !.cache_before = cache,
                                !.strays_before = strays,
                                !.runs = IF run.forever THEN 0 ELSE maint.runs + 1]
    /\ run' = Started(<<>>)
    /\ UNCHANGED <<entries, entry_seq, cache, client, tasks, strays>>
    /\ UNCHANGED <<tableVars, managerVars, last, policyVars>>

\* prune_dangling_files, the loop: entries.next_entry() yields the entries
\* in no particular order; check_dir_entry(&entry) up to the answer of
\* api::get_by_cache_path, an error is logged (entry.metadata() fails when
\* the file was removed after read_dir)
CheckDirEntry ==
    /\ maint.pc = "prune"
    /\ IF maint.dir = {}
       THEN maint' = [maint EXCEPT !.pc = "idle"]
       ELSE \E entry \in maint.dir :
              maint' = IF /\ entry.path \in CachePaths => cache[entry.path].exists
                          /\ check_dir_entry(entries, entry).remove
                       THEN [maint EXCEPT !.pc = "prune_remove", !.dir = @ \ {entry},
                                          !.victim = entry]
                       ELSE [maint EXCEPT !.dir = @ \ {entry}]
    /\ UNCHANGED <<entries, entry_seq, cache, client, tasks, strays, run>>
    /\ UNCHANGED <<tableVars, managerVars, last, policyVars>>

\* check_dir_entry, after the answer None: fs::remove_file(&path), an error
\* (the file is gone already) is logged
RemoveDangling ==
    /\ maint.pc = "prune_remove"
    /\ cache' = IF maint.victim.path \in CachePaths
                THEN [cache EXCEPT ![maint.victim.path] = NoCacheFile]
                ELSE cache
    /\ strays' = strays \ {maint.victim}
    /\ maint' = [maint EXCEPT !.pc = "prune", !.victim = NoMaint.victim]
    /\ UNCHANGED <<entries, entry_seq, client, tasks, run>>
    /\ UNCHANGED <<tableVars, managerVars, last, policyVars>>

\* the row a row of the table was when the stage began
Before(e) == CHOOSE b \in maint.before : b.id = e.id
StageDone(stage) == maint.pc = "idle" /\ maint.stage = stage

\* C17 as stated: after one run of the cache cleaner, an entry that was Ready,
\* expired and not referenced when the run began is gone from the table and
\* its file is gone from the cache, whenever the release tasks run.
C17_CleanerRemovesExpired ==
    StageDone("clean") =>
        \A b \in maint.before :
            b.status = Ready /\ Expired(b, maint.now) /\ b.ref_count = 0 =>
                ~HasEntry(entries, b.id) /\ ~cache[b.cache_path].exists

\* C18 as stated: the scheduling stage of the cleaner sets ToRemove only on
\* entries that were Ready and expired at its now; an entry that was Pending
\* or Corrupted, or that had not expired, keeps its status.
C18_OnlyReadyExpiredScheduled ==
    maint.stage = "clean" /\ maint.pc = "filter" =>
        \A e \in entries :
            IF Before(e).status = Ready /\ Expired(Before(e), maint.now)
            THEN TRUE
            ELSE e.status = Before(e).status

\* C19 as stated: the find-corrupted stage sets Corrupted on exactly the
\* entries that were Ready and whose path did not exist; every other entry
\* keeps its status.
C19_OnlyReadyMissingCorrupted ==
    StageDone("find_corrupted") =>
        \A e \in entries :
            IF Before(e).status = Ready /\ ~maint.cache_before[e.cache_path].exists
            THEN e.status = Corrupted
            ELSE e.status = Before(e).status

InitCacheOf(urls) ==
    /\ InitManager /\ InitNoPolicy
    /\ \E present \in SUBSET urls :
         \E st \in [present -> FileStatus], ex \in [present -> {None, Some(1)}] :
            entries = {[id |-> IF u = "u1" THEN 1 ELSE 2, url |-> u,
                        cache_path |-> cache_path_of(u), status |-> st[u],
                        ref_count |-> 0, expires |-> ex[u]] : u \in present}
    /\ entry_seq = Cardinality(Urls)
    /\ cache \in [CachePaths -> {NoCacheFile, file_create(NoCacheFile, 1)}]
    /\ client = [c \in Clients |-> NoClient]
    /\ maint = NoMaint
    /\ tasks = [id \in EntryIds |-> 0]
InitCache == InitCacheOf(Urls)
\* stages are run one by one on a directory that holds nothing else
InitMaint == InitCache /\ strays = {} /\ run = NoRun

NextMaint ==
    \/ \E stage \in {"clean", "find_corrupted"} : List(stage)
    \/ Expires
    \/ Schedule
    \/ FilterByStatus
    \/ CleanerRemove
    \/ CheckFile
    \/ RemoveCorrupted
    \/ \E id \in EntryIds : ReleaseTask(id)
SpecMaint == InitMaint /\ [][NextMaint]_vars

\* C37 as stated: ref_count is never negative, and when no call is under
\* way and every release task has run, the ref_count of every entry is the
\* number of File values of it that are alive and not released.
C37_RefCountIsHandles ==
    /\ \A e \in entries : e.ref_count >= 0
    /\ ((\A c \in Clients : client[c].pc = "idle") /\ (\A id \in EntryIds : tasks[id] = 0)) =>
          \A e \in entries : e.ref_count = Handles(e.id)

\* clients get and find files, clone them, release and drop them; the
\* runtime runs the release tasks
NextHandles ==
    \/ \E c \in Clients :
          \/ Get(c) \/ FetchCreate(c) \/ FetchStream(c) \/ FetchUpdate(c)
          \/ CleanupFile(c) \/ CleanupRow(c)
          \/ WaitLookup(c) \/ WaitPoll(c) \/ CreateLockedFile(c)
          \/ Find(c) \/ CloneFile(c) \/ Release(c) \/ DropFile(c)
    \/ \E id \in EntryIds : ReleaseTask(id)
SpecHandles == Init /\ [][NextHandles]_vars

\* C31 as stated: a stage that is over returned Ok and looked at every entry
\* it listed, also when reading or writing one entry failed.
C31_StageSurvivesEntryFailure ==
    maint.pc = "idle" /\ maint.stage # "none" =>
        maint.err = NoError /\ maint.left = 0

\* the stages, run one by one, with a database that may fail when a stage
\* reads the expiry of an entry or writes its status
NextFailing == NextMaint \/ ExpiresFails \/ CheckFileFails
SpecFailing == InitMaint /\ [][NextFailing]_vars

InitPrune == InitCache /\ strays \in SUBSET StrayEntries /\ run = NoRun
NextPrune == ReadDir \/ CheckDirEntry \/ RemoveDangling
SpecPrune == InitPrune /\ [][NextPrune]_vars

\* C38 as stated: a step of the prune stage that deletes a file deletes no
\* file that is, at that moment, the file of a record.
C38_PruneSparesRecordedFiles ==
    [][\A path \in CachePaths :
          (maint.pc = "prune_remove" /\ maint' # maint
             /\ cache[path].exists /\ ~cache'[path].exists) =>
                ~\E e \in entries : e.cache_path = path
      ]_vars

\* the prune stage runs while a client gets and removes URLs
NextRace == ClientStep(1) \/ NextPrune
SpecRace == Init /\ [][NextRace]_vars

\* the rows of a table without their reference counts
Records(table) ==
    {[id |-> e.id, url |-> e.url, cache_path |-> e.cache_path, status |-> e.status,
      expires |-> e.expires] : e \in table}

\* C22 as stated: when run_once has run twice in a row with nothing else at
\* work, rows, statuses and files are what the first run left (looked at
\* where both cleanings read the same instant).
C22_SecondRunChangesNothing ==
    (/\ run.cycle /\ run.step = 2 * Len(StageOrder) /\ maint.pc = "idle"
     /\ run.now[1] = run.now[2]) =>
        /\ Records(entries) = Records(run.once.entries)
        /\ cache = run.once.cache
        /\ strays = run.once.strays

\* run_once is called twice in a row on a cache of at most one entry, with
\* or without files and stray entries; the release tasks of the File
\* handles it drops run when the runtime schedules them
InitCycle ==
    /\ InitCacheOf({"u1"})
    /\ strays \in {{}, StrayEntries}
    /\ run = [NoRun EXCEPT !.cycle = TRUE]
NextCycle == NextMaint \/ NextPrune
SpecCycle == InitCycle /\ [][NextCycle]_vars

\* C35 as stated: while run_once is called again and again with every stage
\* enabled and the release tasks run, a Pending record that a failed get
\* left behind does not stay Pending for ever.
C35_StalePendingEliminated ==
    (\E e \in entries : e.status = Pending) ~> (\A e \in entries : e.status # Pending)

\* a cache of at most one entry, as a get left it whose cleanup did not
\* complete when the entry is Pending; nothing holds a File, no client is
\* at work, and run_once is called for ever
InitStale ==
    /\ InitCacheOf({"u1"})
    /\ strays \in {{}, StrayEntries}
    /\ run = [NoRun EXCEPT !.cycle = TRUE, !.forever = TRUE]
\* the runner is polled until a stage returns, and the runtime runs every
\* release task that was spawned
SpecStale ==
    /\ InitStale /\ [][NextCycle]_vars
    /\ WF_vars(NextCycle)
    /\ \A id \in EntryIds : WF_vars(ReleaseTask(id))

\* C40 as stated: when Client::remove of the cached URL was refused with
\* UsedFile and from some time on nothing holds a File of it, the row and
\* the file of the URL are eventually gone, run_once (with the cleaner)
\* being called again and again.
C40_UsedFileRemovedLater ==
    (/\ <>(\E c \in Clients : client[c].res = ResErr(RemoveError("UsedFile")))
     /\ <>[](\A c \in Clients : client[c].held = 0)) =>
        <>(/\ get_by_url(entries, "u1") = {}
           /\ ~cache[cache_path_of("u1")].exists)

\* u1 is cached or not; a client takes Files of it with find, releases them
\* and removes the URL, while run_once is called for ever
InitInUse ==
    /\ InitCacheOf({"u1"})
    /\ strays = {}
    /\ run = [NoRun EXCEPT !.cycle = TRUE, !.forever = TRUE]
NextInUse ==
    \/ Find(1) \/ CreateLockedFile(1) \/ Release(1)
    \/ Remove(1) \/ RemoveMark(1) \/ RemoveLookup(1) \/ RemoveEntry(1) \/ RemoveFile(1)
    \/ NextCycle
\* the runner is polled until a stage returns, and the runtime runs every
\* release task that was spawned; nothing obliges the client to go on
SpecInUse ==
    /\ InitInUse /\ [][NextInUse]_vars
    /\ WF_vars(NextCycle)
    /\ \A id \in EntryIds : WF_vars(ReleaseTask(id))

\* ------------------------------------------------ expiry and conversion
\* FileMetadata::is_expired(now) on the metadata value, at some instant
IsExpired ==
    /\ \E now \in Instants :
          LET probe == [now |-> now, ttl |-> time_to_live(meta, now),
                        expired |-> is_expired(meta, now)]
          IN probes' = IF probes = <<>> THEN <<probe>>
                       ELSE <<probes[Len(probes)], probe>>
    /\ UNCHANGED <<meta, policy, stored, loaded, setup, conn>>
    /\ UNCHANGED <<tableVars, managerVars, last, clientVars, maintVars>>

\* NewFile::try_from: metadata.store_policy.try_into()?
PolicyToSql ==
    /\ stored = NotStored
    /\ stored' = store_policy_to_sql(policy)
    /\ UNCHANGED <<meta, probes, policy, loaded, setup, conn>>
    /\ UNCHANGED <<tableVars, managerVars, last, clientVars, maintVars>>

\* FileMetadata::try_from(File): (file.store_policy, file.store_policy_data).try_into()?
PolicyFromSql ==
    /\ stored # NotStored /\ stored.err = NoError
    /\ loaded = NotLoaded
    /\ loaded' = store_policy_from_sql(stored.tag, stored.data)
    /\ UNCHANGED <<meta, probes, policy, stored, setup, conn>>
    /\ UNCHANGED <<tableVars, managerVars, last, clientVars, maintVars>>

\* the deadline of a metadata value under an expiring policy, in ticks
Deadline(m) ==
    IF m.store_policy.kind = "ExpiresAfter"
    THEN m.created + Ticks(m.store_policy.duration)
    ELSE m.last_used + Ticks(m.store_policy.duration)

\* C14 as stated: is_expired is true exactly from the deadline on (created + d
\* under ExpiresAfter, last_used + d under ExpiresAfterNotUsedFor), so it is
\* false at every instant before the deadline; under StoreForever time_to_live
\* is None and is_expired is false.
C14_ExpiredExactlyFromDeadline ==
    \A i \in DOMAIN probes :
        IF meta.store_policy.kind = "StoreForever"
        THEN ~probes[i].ttl.some /\ ~probes[i].expired
        ELSE probes[i].expired <=> probes[i].now >= Deadline(meta)

\* C15: is_expired is monotone in now: of two evaluations on one metadata
\* value, the later one is true when the earlier one is.
C15_ExpiredMonotone ==
    Len(probes) = 2 /\ probes[1].now <= probes[2].now /\ probes[1].expired =>
        probes[2].expired

\* C15 witness: expired at an instant and at a later one, and before that not
C15_Witness ==
    /\ Len(probes) = 2 /\ probes[1].now < probes[2].now
    /\ probes[1].expired /\ probes[2].expired
    /\ ~is_expired(meta, 0)

\* C16: a policy with a whole number of seconds that fits an i32 converts to a
\* pair without error and reads back as itself; StoreForever has no data.
C16_StorePolicyRoundTrip ==
    (policy.kind = "StoreForever"
        \/ (policy.duration.sub = 0 /\ ~policy.duration.wide)) =>
        /\ stored # NotStored =>
              /\ stored.err = NoError
              /\ policy.kind = "StoreForever" => ~stored.data.some
        /\ loaded # NotLoaded =>
              loaded.err = NoError /\ loaded.policy = policy

\* C16 witness: the longest duration that fits was written and read back
C16_Witness ==
    /\ policy = ExpiresAfterNotUsedFor(Duration(FALSE, I32Max, 0))
    /\ stored.data = Some(I32Max)
    /\ loaded.policy = policy

InitPolicy ==
    /\ InitManager /\ InitClient /\ InitNoMaint
    /\ \/ meta \in Metas /\ policy = meta.store_policy
       \/ policy \in Policies /\ meta = [store_policy |-> StoreForever,
                                         created |-> 0, last_used |-> 0]
    /\ probes = <<>>
    /\ stored = NotStored
    /\ loaded = NotLoaded
    /\ setup = NoSetup
    /\ conn = [k \in Conns |-> NoConn]

NextPolicy == IsExpired \/ PolicyToSql \/ PolicyFromSql
SpecPolicy == InitPolicy /\ [][NextPolicy]_vars

\* the data column of a row: NULL or an i32
SqlData == {None, Some(-42), Some(0), Some(42), Some(I32Max)}
\* FileMetadata::try_from(File) on a row read from the table, whatever its
\* tag and data are: (file.store_policy, file.store_policy_data).try_into()?
PolicyFromRow ==
    /\ stored = NotStored /\ loaded = NotLoaded
    /\ \E tag \in 0..2, data \in SqlData :
         /\ stored' = [err |-> NoError, tag |-> tag, data |-> data]
         /\ loaded' = store_policy_from_sql(tag, data)
    /\ UNCHANGED <<meta, probes, policy, setup, conn>>
    /\ UNCHANGED <<tableVars, managerVars, last, clientVars, maintVars>>

\* C33: converting a timed policy of more than 2^31-1 seconds to its pair
\* fails with the conversion error and yields no data; reading a pair with a
\* timed tag fails with MissingPolicyData when the data is absent and with
\* the conversion error when it is negative; the StoreForever tag reads as
\* StoreForever with or without data; every such error is a
\* ConvertStorePolicyError.
C33_ConversionErrors ==
    /\ (stored # NotStored /\ loaded = NotLoaded /\ policy.kind # "StoreForever"
         /\ policy.duration.wide) =>
            stored.err = TryFromIntError /\ ~stored.data.some
    /\ loaded # NotLoaded =>
         IF stored.tag = PolicyTag("StoreForever")
         THEN loaded.err = NoError /\ loaded.policy = StoreForever
         ELSE IF ~stored.data.some THEN loaded.err = MissingPolicyData
         ELSE IF stored.data.val < 0 THEN loaded.err = TryFromIntError
         ELSE loaded.err = NoError
    /\ stored.err # NoError => stored.err.variant = "ConvertStorePolicyError"
    /\ loaded.err # NoError => loaded.err.variant = "ConvertStorePolicyError"

\* C33 witness: a row with a timed tag and negative data was read and the
\* reading failed with the conversion error.
C33_Witness ==
    /\ stored.tag = PolicyTag("ExpiresAfterNotUsedFor") /\ stored.data = Some(-42)
    /\ loaded.err = TryFromIntError

NextRows == PolicyToSql \/ PolicyFromSql \/ PolicyFromRow
SpecRows == InitPolicy /\ [][NextRows]_vars

\* --------------------------------------------- statements of the client's table
\* api::remove_entry(pk) run directly, with any key
ApiRemoveEntry ==
    /\ \E pk \in 1..(Cardinality(Urls) + 1) :
         LET r == remove_entry(entries, pk)
         IN /\ entries' = r.table
            /\ last' = [op |-> "remove_entry", new |-> NoStatement.new, pk |-> pk,
                        err |-> r.err, before |-> entries]
    /\ UNCHANGED <<entry_seq, cache, client>>
    /\ UNCHANGED <<tableVars, managerVars, policyVars, maintVars>>

\* C32: remove_entry deletes the row of the key, and nothing else, only if
\* the row exists with ref_count 0 and status ToRemove; it returns NotFound
\* without a row, UsedFile with a non-zero count (whatever the status) and
\* WrongStatus with a zero count and another status, and then the table is
\* as it was.
C32_RemoveEntryChecks ==
    last.op = "remove_entry" =>
        LET rows == {e \in last.before : e.id = last.pk}
        IN IF rows = {}
           THEN last.err = DieselNotFound("remove_entry") /\ entries = last.before
           ELSE \A e \in rows :
                  IF e.ref_count # 0
                  THEN last.err = RemoveError("UsedFile") /\ entries = last.before
                  ELSE IF e.status # ToRemove
                  THEN last.err = RemoveError("WrongStatus") /\ entries = last.before
                  ELSE last.err = NoError /\ entries = last.before \ {e}

\* C32 witness: remove_entry was refused with UsedFile on a row that was
\* referenced and not marked ToRemove, next to another row.
C32_Witness ==
    /\ last.op = "remove_entry" /\ last.err = RemoveError("UsedFile")
    /\ Cardinality(last.before) = 2
    /\ \E e \in last.before : e.id = last.pk /\ e.ref_count # 0 /\ e.status # ToRemove

\* a table of any rows: for every URL no entry or an entry of any status,
\* referenced or not
InitApi ==
    /\ InitManager /\ InitNoPolicy /\ InitNoMaint
    /\ \E present \in SUBSET Urls :
         \E st \in [present -> FileStatus], rc \in [present -> {0, 1}] :
            entries = {[id |-> IF u = "u1" THEN 1 ELSE 2, url |-> u,
                        cache_path |-> cache_path_of(u), status |-> st[u],
                        ref_count |-> rc[u], expires |-> None] : u \in present}
    /\ entry_seq = Cardinality(Urls)
    /\ cache = [p \in CachePaths |-> NoCacheFile]
    /\ client = [c \in Clients |-> NoClient]

NextApi == ApiRemoveEntry
SpecApi == InitApi /\ [][NextApi]_vars

\* ------------------------------------------------- storage manager setup
\* StorageManager::init(database_url, dir, pool_size)
InitWithConfig ==
    /\ ~setup.res.called
    /\ LET r == init_with_config(setup.fs, setup.db, setup.database_url, setup.path)
       IN setup' = [setup EXCEPT !.fs = r.fs, !.db = r.db,
                                 !.before = [fs |-> setup.fs, db |-> setup.db],
                                 !.res = [called |-> TRUE, err |-> r.err, mgr |-> r.mgr]]
    /\ UNCHANGED <<meta, probes, policy, stored, loaded, conn>>
    /\ UNCHANGED <<tableVars, managerVars, last, clientVars, maintVars>>

\* FileSource::parse(input) and StorageManager::path_from_source(&source) on
\* the manager init returned
PathFromSource ==
    /\ setup.res.mgr.some
    /\ \E input \in SourceInputs :
         LET source == parse(input)
             d == [input |-> input, source |-> source,
                   path |-> manager_path_from_source(setup.res.mgr.val, source)]
         IN setup' = [setup EXCEPT !.derived = IF @ = <<>> THEN <<d>>
                                               ELSE <<@[Len(@)], d>>]
    /\ UNCHANGED <<meta, probes, policy, stored, loaded, conn>>
    /\ UNCHANGED <<tableVars, managerVars, last, clientVars, maintVars>>

\* C27: init returns StorageDirectoryPathIsNotAbsolute for a path that does
\* not begin at the root and StorageDirectoryDoesNotExist for an absolute
\* path that is no directory of the file system; in both cases the database
\* file is as it was (not created, not migrated, no pool built) and so is
\* the file system (no directory created).
C27_InitRejectsBadDirectory ==
    setup.res.called =>
        /\ (setup.path = <<>> \/ setup.path[1] # RootDir) =>
              /\ setup.res.err = StorageDirectoryPathIsNotAbsolute
              /\ setup.db = setup.before.db /\ setup.fs = setup.before.fs
              /\ ~setup.res.mgr.some
        /\ (setup.path # <<>> /\ setup.path[1] = RootDir
                /\ setup.path \notin setup.before.fs.dirs) =>
              /\ setup.res.err = StorageDirectoryDoesNotExist
              /\ setup.db = setup.before.db /\ setup.fs = setup.before.fs
              /\ ~setup.res.mgr.some

\* C27 witness: init was called on an absolute path that is a regular file,
\* with a database that did not exist, and returned
\* StorageDirectoryDoesNotExist.
C27_Witness ==
    /\ setup.res.called
    /\ setup.path = <<RootDir, "file">>
    /\ setup.before.db = NoDatabase
    /\ setup.res.err = StorageDirectoryDoesNotExist

\* C28: every derived path is the manager's directory followed by the one
\* component that is the fingerprint of the source's string, hence absolute
\* and directly inside the directory; sources of equal strings have equal
\* paths, and so have "https://example.com" and "https://example.com/".
C28_PathFromSource ==
    LET mgr_dir == setup.res.mgr.val
    IN \A i, j \in DOMAIN setup.derived :
          LET d == setup.derived[i]
              e == setup.derived[j]
          IN /\ d.path # <<>> /\ d.path[1] = RootDir
             /\ Len(d.path) = Len(mgr_dir) + 1
             /\ SubSeq(d.path, 1, Len(mgr_dir)) = mgr_dir
             /\ d.path[Len(d.path)] = sha256_digest(as_str(d.source))
             /\ as_str(d.source) = as_str(e.source) => d.path = e.path
             /\ d.input = "https://example.com" /\ e.input = "https://example.com/"
                  => d.path = e.path

\* C28 witness: the paths of "https://example.com" and "https://example.com/"
\* were derived one after the other.
C28_Witness ==
    /\ Len(setup.derived) = 2
    /\ setup.derived[1].input = "https://example.com"
    /\ setup.derived[2].input = "https://example.com/"
    /\ setup.derived[1].path = setup.derived[2].path

\* init is called with any directory argument and any database URL, on a
\* database file that does not exist yet or on one an earlier run left
InitSetup ==
    /\ InitManager /\ InitClient /\ InitNoMaint
    /\ meta = [store_policy |-> StoreForever, created |-> 0, last_used |-> 0]
    /\ probes = <<>>
    /\ policy = StoreForever
    /\ stored = NotStored
    /\ loaded = NotLoaded
    /\ conn = [k \in Conns |-> NoConn]
    /\ \E path \in DirArgs, database_url \in DatabaseUrls,
          db \in {NoDatabase, [exists |-> TRUE, migrated |-> TRUE, pools |-> 0]} :
         setup = [NoSetup EXCEPT !.path = path, !.database_url = database_url, !.db = db]

NextSetup == InitWithConfig \/ PathFromSource
SpecSetup == InitSetup /\ [][NextSetup]_vars

\* ------------------------------------------- configuring a new connection
\* establish_connection begins for a connection of the pool:
\* Connection::establish(database_url).await?
Establish(k) ==
    /\ conn[k].pc = "idle"
    /\ \E database_url \in DatabaseUrls :
         LET c == establish_connection(NoDatabase, database_url)
         IN conn' = [conn EXCEPT ![k] =
                    IF c.err = NoError
                    THEN [NoConn EXCEPT !.pc = "configure", !.database_url = database_url]
                    ELSE [NoConn EXCEPT !.pc = "done", !.database_url = database_url,
                                        !.result = [err |-> c.err, connection |-> FALSE]]]
    /\ UNCHANGED <<meta, probes, policy, stored, loaded, setup>>
    /\ UNCHANGED <<tableVars, managerVars, last, clientVars, maintVars>>

\* connection.batch_execute(&query), the first time: Ok(_) => Ok(connection),
\* Err(err) => result = CouldntSetupConfiguration(err) and the loop begins
Configure(k) ==
    /\ conn[k].pc = "configure"
    /\ \E r \in BatchResults :
         conn' = [conn EXCEPT ![k] =
                 IF r = "Ok"
                 THEN [@ EXCEPT !.pc = "done", !.log = Append(@, r),
                                !.result = [err |-> NoError, connection |-> TRUE]]
                 ELSE [@ EXCEPT !.pc = IF RETRY_TIMES > 0 THEN "sleep" ELSE "done",
                                !.log = Append(@, r), !.i = 0,
                                !.result = [err |-> CouldntSetupConfiguration(r),
                                            connection |-> FALSE]]]
    /\ UNCHANGED <<meta, probes, policy, stored, loaded, setup>>
    /\ UNCHANGED <<tableVars, managerVars, last, clientVars, maintVars>>

\* time::sleep(RETRY_PERIOD).await
Sleep(k) ==
    /\ conn[k].pc = "sleep"
    /\ conn' = [conn EXCEPT ![k].pc = "retry", ![k].slept = @ + RETRY_PERIOD]
    /\ UNCHANGED <<meta, probes, policy, stored, loaded, setup>>
    /\ UNCHANGED <<tableVars, managerVars, last, clientVars, maintVars>>

\* connection.batch_execute(&query) in the loop: an error replaces result
\* and the loop goes on, Ok sets result = Ok(connection) and breaks
Retry(k) ==
    /\ conn[k].pc = "retry"
    /\ \E r \in BatchResults :
         conn' = [conn EXCEPT ![k] =
                 IF r = "Ok"
                 THEN [@ EXCEPT !.pc = "done", !.log = Append(@, r),
                                !.result = [err |-> NoError, connection |-> TRUE]]
                 ELSE [@ EXCEPT !.pc = after_failed_retry(conn[k].i),
                                !.log = Append(@, r), !.i = @ + 1,
                                !.result = [err |-> CouldntSetupConfiguration(r),
                                            connection |-> FALSE]]]
    /\ UNCHANGED <<meta, probes, policy, stored, loaded, setup>>
    /\ UNCHANGED <<tableVars, managerVars, last, clientVars, maintVars>>

\* C34: establish_connection runs the PRAGMA batch at most 1 + 3 times, has
\* slept 100 ms before each run after the first, stops at the first run that
\* succeeds and then returns the connection, and when the first run and all
\* three retries failed returns CouldntSetupConfiguration with the error of
\* the last run.
C34_ConfigurationRetried ==
    \A k \in Conns :
        LET n == Len(conn[k].log)
        IN /\ n <= 1 + 3
           /\ conn[k].pc = "retry" => conn[k].slept = 100 * n
           /\ conn[k].pc \in {"sleep", "done"} /\ n > 0 => conn[k].slept = 100 * (n - 1)
           /\ \A j \in 1..n : conn[k].log[j] = "Ok" => j = n /\ conn[k].pc = "done"
           /\ (conn[k].pc = "done" /\ n > 0) =>
                 IF conn[k].log[n] = "Ok"
                 THEN conn[k].result = [err |-> NoError, connection |-> TRUE]
                 ELSE /\ n = 1 + 3
                      /\ conn[k].result =
                            [err |-> CouldntSetupConfiguration(conn[k].log[n]),
                             connection |-> FALSE]

\* C34 witness: the batch failed four times, the last time otherwise than
\* the time before, and the function returned the last error after 300 ms
\* of sleep.
C34_Witness ==
    \E k \in Conns :
        /\ conn[k].pc = "done" /\ Len(conn[k].log) = 4
        /\ conn[k].log[3] = "DatabaseBusy" /\ conn[k].log[4] = "DatabaseLocked"
        /\ conn[k].result.err = CouldntSetupConfiguration("DatabaseLocked")
        /\ conn[k].slept = 300

InitConn == InitManager /\ InitClient /\ InitNoPolicy /\ InitNoMaint
NextConn == \E k \in Conns : Establish(k) \/ Configure(k) \/ Sleep(k) \/ Retry(k)
SpecConn == InitConn /\ [][NextConn]_vars

====
